---- MODULE Spec2Model ----
(***************************************************************************)
(* State-machine model of the C S Construction dashboard backend:          *)
(*   backend/app/db.py      relational persistence layer (SQLite)          *)
(*   backend/app/main.py    domain API service (FastAPI route handlers)    *)
(*   backend/app/schemas.py response/request shapes (pydantic)             *)
(* One action per startup step or route handler.  A db_cursor scope is     *)
(* atomic: it commits when its body completes and changes nothing when     *)
(* the body raises.                                                        *)
(***************************************************************************)
EXTENDS Integers, Sequences, FiniteSets, TLC

(* ------------------------------ bounds --------------------------------- *)
\* highest project id the AUTOINCREMENT counter may hand out
MaxProjectId == 2
\* rows the create routes may add to the child tables, in total
MaxRouteRows == 1
\* cost heads are concatenations of at most this many fragments (SpecClassify)
MaxFrags == 2
\* startup-initialization runs counted by the history
MaxRuns == 3
MaxWords == 2

(* --------------------------- optional values --------------------------- *)
\* Python None / SQL NULL, and a present value
None == <<>>
Some(v) == <<v>>

(* ------------------------------ cost heads ----------------------------- *)
\* the cost heads the seed and the requests use
H_MaterialsSteel == "Materials - Steel"
H_MaterialsCement == "Materials - Cement/RMC"
H_Labour == "Labour"
H_Machinery == "Machinery"
H_Subcontract == "Subcontract"
H_Fuel == "Fuel"
H_TestingQA == "Testing & QA"
H_Overheads == "Overheads"
H_Steel == "Steel"

\* the characters of a cost head
Chars(h) ==
  CASE h = H_MaterialsSteel  -> <<"M","a","t","e","r","i","a","l","s"," ","-"," ","S","t","e","e","l">>
    [] h = H_MaterialsCement -> <<"M","a","t","e","r","i","a","l","s"," ","-"," ","C","e","m","e","n","t","/","R","M","C">>
    [] h = H_Labour          -> <<"L","a","b","o","u","r">>
    [] h = H_Machinery       -> <<"M","a","c","h","i","n","e","r","y">>
    [] h = H_Subcontract     -> <<"S","u","b","c","o","n","t","r","a","c","t">>
    [] h = H_Fuel            -> <<"F","u","e","l">>
    [] h = H_TestingQA       -> <<"T","e","s","t","i","n","g"," ","&"," ","Q","A">>
    [] h = H_Overheads       -> <<"O","v","e","r","h","e","a","d","s">>
    [] h = H_Steel           -> <<"S","t","e","e","l">>

(* ------------------------------- state --------------------------------- *)
VARIABLES
  VERCEL,            \* os.getenv("VERCEL") is set
  phase,             \* "boot" | "imported" | "serving"
  DB_AVAILABLE,      \* main.DB_AVAILABLE
  schema,            \* the tables of init_db exist in the database file
  projects,          \* table projects
  daily_logs,        \* table daily_logs
  daily_activities,  \* table daily_activities
  cost_entries,      \* table cost_entries
  budget_items,      \* table budget_items
  kpi_rows,          \* the KPI tables, one row set tagged by table name
  seq,               \* sqlite_sequence: last AUTOINCREMENT id per table
  resp,              \* the last request and its response
  hist,              \* history of startup-initialization runs since the empty database
  routeRows,         \* child rows inserted by the create routes so far
  head,              \* input of the classification run (SpecClassify)
  category,          \* its result
  aiCall,            \* arguments and environment of one call of answer() (SpecAi)
  aiResult,          \* its result
  fs,                \* the filesystem: the database directory and the database file
  dbfile,            \* the database file column by column (init_db, _migrate_schema)
  procs              \* the server processes, statement by statement

tables == <<projects, daily_logs, daily_activities, cost_entries, budget_items, kpi_rows>>
db == <<schema, projects, daily_logs, daily_activities, cost_entries, budget_items, kpi_rows, seq>>
vars == <<VERCEL, phase, DB_AVAILABLE, schema, projects, daily_logs, daily_activities,
          cost_entries, budget_items, kpi_rows, seq, resp, hist, routeRows, head, category,
          aiCall, aiResult, fs, dbfile, procs>>

KpiTables == {"project_milestones", "ra_bills", "quality_tests", "ncrs", "safety_incidents",
              "labour_manpower", "plant_machinery", "material_inventory", "risk_register"}
TableNames == {"projects", "daily_logs", "daily_activities", "cost_entries", "budget_items"}
                 \cup KpiTables

\* PRAGMA foreign_keys = ON on every connection
ForeignKeysOn == TRUE

\* variant: budget_items declared without its UNIQUE clause
NoBudgetUniqueConstraint == FALSE

\* UNIQUE(project_id, cost_head) on budget_items
BudgetUniqueConstraint == TRUE

(* ----------------------------- seed data ------------------------------- *)
SampleName == "Railway ROB + Bridge Works (Pile Foundation & Sub-Structure)"

SeedProject(pid) ==
  [id |-> pid, name |-> SampleName, client |-> "Indian Railways / PWD",
   location |-> "Maharashtra", contract_no |-> Some("PWD-IR-ROB-001"),
   start_date |-> Some(20260101), end_date |-> Some(20261231),
   total_contract_value |-> Some(100000000), profit_margin_target |-> 12,
   status |-> "Planning", created_at |-> "now"]

SeedBudgets ==
  << [cost_head |-> H_MaterialsSteel,  budget_amount |-> 12000000],
     [cost_head |-> H_MaterialsCement, budget_amount |-> 9500000],
     [cost_head |-> H_Labour,          budget_amount |-> 6500000],
     [cost_head |-> H_Machinery,       budget_amount |-> 4000000],
     [cost_head |-> H_Subcontract,     budget_amount |-> 7500000],
     [cost_head |-> H_Fuel,            budget_amount |-> 1800000],
     [cost_head |-> H_TestingQA,       budget_amount |-> 600000],
     [cost_head |-> H_Overheads,       budget_amount |-> 2200000] >>

\* quantities are kept in tenths of the unit (6.5 MT is 65)
SeedCosts ==
  << [entry_date |-> 20260121, cost_head |-> H_MaterialsSteel,  amount |-> 325000,
      quantity |-> Some(65),    uom |-> Some("MT")],
     [entry_date |-> 20260121, cost_head |-> H_MaterialsCement, amount |-> 187500,
      quantity |-> Some(750),   uom |-> Some("CuM")],
     [entry_date |-> 20260121, cost_head |-> H_Labour,          amount |-> 89250,
      quantity |-> Some(32500), uom |-> Some("Hours")],
     [entry_date |-> 20260121, cost_head |-> H_Machinery,       amount |-> 250000,
      quantity |-> Some(10),    uom |-> Some("Job")],
     [entry_date |-> 20260121, cost_head |-> H_Fuel,            amount |-> 18000,
      quantity |-> Some(2000),  uom |-> Some("Litre")],
     [entry_date |-> 20260122, cost_head |-> H_TestingQA,       amount |-> 15600,
      quantity |-> Some(130),   uom |-> Some("Nos")],
     [entry_date |-> 20260122, cost_head |-> H_Overheads,       amount |-> 22500,
      quantity |-> Some(750),   uom |-> Some("Hours")] >>

SeedActivities ==
  << [category |-> "Pile Foundation", activity |-> "Boring for pile P-01"],
     [category |-> "Pile Foundation", activity |-> "Rebar cage fabrication"],
     [category |-> "General",         activity |-> "Site survey & setting out"] >>

SeedLabourDates == <<20260131, 20260215, 20260228>>
SeedLabourActual == <<82, 78, 86>>

\* rows the seed inserts per KPI table
KpiSeedCount(t) ==
  CASE t = "project_milestones" -> 4
    [] t = "ra_bills"           -> 3
    [] t = "quality_tests"      -> 5
    [] t = "ncrs"               -> 4
    [] t = "safety_incidents"   -> 4
    [] t = "labour_manpower"    -> 3
    [] t = "plant_machinery"    -> 3
    [] t = "material_inventory" -> 3
    [] t = "risk_register"      -> 4

\* rows the seed inserts per table
SeedCount(t) ==
  CASE t = "projects"         -> 1
    [] t = "daily_logs"       -> 1
    [] t = "daily_activities" -> Len(SeedActivities)
    [] t = "cost_entries"     -> Len(SeedCosts)
    [] t = "budget_items"     -> Len(SeedBudgets)
    [] OTHER                  -> KpiSeedCount(t)

SeedBudgetRows(pid, base) ==
  { [id |-> base + i, project_id |-> pid, cost_head |-> SeedBudgets[i].cost_head,
     budget_amount |-> SeedBudgets[i].budget_amount, notes |-> Some("Seed budget head")]
    : i \in 1..Len(SeedBudgets) }

SeedLogRow(pid, base) ==
  [id |-> base + 1, project_id |-> pid, log_date |-> 20260121]

SeedActivityRows(lid, base) ==
  { [id |-> base + i, daily_log_id |-> lid, category |-> SeedActivities[i].category,
     activity |-> SeedActivities[i].activity]
    : i \in 1..Len(SeedActivities) }

SeedCostRows(pid, base) ==
  { [id |-> base + i, project_id |-> pid, entry_date |-> SeedCosts[i].entry_date,
     cost_head |-> SeedCosts[i].cost_head, amount |-> SeedCosts[i].amount,
     quantity |-> SeedCosts[i].quantity, uom |-> SeedCosts[i].uom]
    : i \in 1..Len(SeedCosts) }

SeedKpiRows(pid, s) ==
  { [table |-> t, id |-> s[t] + i, project_id |-> pid,
     record_date |-> IF t = "labour_manpower" THEN Some(SeedLabourDates[i]) ELSE None,
     total_actual |-> IF t = "labour_manpower" THEN Some(SeedLabourActual[i]) ELSE None]
    : <<t, i>> \in { <<t0, i0>> \in KpiTables \X (1..5) : i0 <= KpiSeedCount(t0) } }

(* ------------------------------ filesystem ----------------------------- *)
\* the database directory and the database file are there
FsFull == [dir |-> TRUE, file |-> TRUE]

\* the states of the filesystem: nothing, the directory, the directory and the file
FsStates == { [dir |-> FALSE, file |-> FALSE], [dir |-> TRUE, file |-> FALSE], FsFull }

\* Path.mkdir(parents=True, exist_ok=True) when the parent is not there
_ensure_db_dir(f) == [f EXCEPT !.dir = TRUE]

\* get_connection: _ensure_db_dir(), then sqlite3.connect, which creates the file when
\* it is not there, then the PRAGMA; any of the three may raise
ConnectFs(f, raises) ==
  IF raises
  THEN {f, _ensure_db_dir(f), [_ensure_db_dir(f) EXCEPT !.file = TRUE]}
  ELSE {[_ensure_db_dir(f) EXCEPT !.file = TRUE]}

(* ---------------------- the file, column by column ---------------------- *)
\* the tables _migrate_schema looks at
MigratedTables == {"cost_entries", "projects"}

\* the columns of the oldest files: those of CREATE TABLE less the migrated ones
BaseColumns(t) ==
  IF t = "projects"
  THEN {"id", "name", "client", "location", "contract_no", "start_date", "end_date",
        "created_at"}
  ELSE {"id", "project_id", "entry_date", "cost_head", "description", "vendor", "amount",
        "payment_mode", "bill_no", "created_at"}

\* the columns of CREATE TABLE IF NOT EXISTS in init_db
CreateColumns(t) ==
  BaseColumns(t) \cup (IF t = "projects"
                       THEN {"total_contract_value", "profit_margin_target"}
                       ELSE {"quantity", "uom", "unit_rate"})

\* the dictionaries of _migrate_schema, in their order
MigratedColumns(t) ==
  IF t = "projects"
  THEN <<"total_contract_value", "profit_margin_target", "contract_completion_date",
         "project_manager", "site_engineer", "status", "updated_at">>
  ELSE <<"quantity", "uom", "unit_rate">>

\* the DEFAULT of a column definition; NULL without one
ColumnDefault(col) ==
  CASE col = "profit_margin_target" -> Some("10.0")
    [] col = "status" -> Some("Planning")
    [] OTHER -> None

\* a file without tables
NoDbFile ==
  [columns |-> [t \in MigratedTables |-> {}], rows |-> [t \in MigratedTables |-> {}]]

\* executescript: CREATE TABLE IF NOT EXISTS for every table
executescript(f) ==
  [f EXCEPT !.columns = [t \in MigratedTables |->
                           IF f.columns[t] = {} THEN CreateColumns(t) ELSE f.columns[t]]]

\* variant: the column is added and the rows of the table are written again empty
AddColumnRewriting(f, t, col) ==
  [f EXCEPT !.columns[t] = @ \cup {col},
            !.rows[t] = { [c \in DOMAIN r \cup {col} |-> IF c = "id" THEN r[c] ELSE None]
                          : r \in @ }]

\* ALTER TABLE t ADD COLUMN col: the rows there get the default of the column
AddColumn(f, t, col) ==
  [f EXCEPT !.columns[t] = @ \cup {col},
            !.rows[t] = { [c \in DOMAIN r \cup {col} |->
                             IF c \in DOMAIN r THEN r[c] ELSE ColumnDefault(col)]
                          : r \in @ }]

RECURSIVE EnsureColumnsUpTo(_, _, _, _)
\* _ensure_columns after the first n entries of the dictionary: existing is read once
EnsureColumnsUpTo(f, t, existing, n) ==
  IF n = 0 THEN f
  ELSE LET g == EnsureColumnsUpTo(f, t, existing, n - 1)
           col == MigratedColumns(t)[n]
       IN IF col \in existing THEN g ELSE AddColumn(g, t, col)

\* _ensure_columns(cur, table, columns)
_ensure_columns(f, t) == EnsureColumnsUpTo(f, t, f.columns[t], Len(MigratedColumns(t)))

\* _migrate_schema(cur): cost_entries, then projects
_migrate_schema(f) == _ensure_columns(_ensure_columns(f, "cost_entries"), "projects")

\* init_db(): the script, then the migration
init_db(f) == _migrate_schema(executescript(f))

\* no process is looked at
NoProcs == <<>>

(* --------------------------- ghost history ----------------------------- *)
Snapshot(p, l, a, c, b, k) ==
  [projects |-> p, daily_logs |-> l, daily_activities |-> a,
   cost_entries |-> c, budget_items |-> b, kpi_rows |-> k]

NoHistory == [pure |-> FALSE, runs |-> 0, first |-> Snapshot({}, {}, {}, {}, {}, {})]

\* a completed run of init_db + seed_if_empty, counted while nothing else has run
RunCompleted(h, snap) ==
  IF ~h.pure THEN NoHistory
  ELSE [pure |-> TRUE,
        runs |-> IF h.runs < MaxRuns THEN h.runs + 1 ELSE MaxRuns,
        first |-> IF h.runs = 0 THEN snap ELSE h.first]

\* no request in hand
NoResp == [op |-> "none", arg |-> 0, payload |-> None, status |-> 0, body |-> None,
           avail |-> TRUE, dbErr |-> FALSE, prior |-> None, queries |-> 0,
           aiCalled |-> FALSE]

\* a handled request: route, id argument, status and body of the response, and
\* what the handler met: the availability flag and whether persistence raised
Response(op, arg, status, body, fail) ==
  [op |-> op, arg |-> arg, payload |-> None, status |-> status, body |-> body,
   avail |-> DB_AVAILABLE, dbErr |-> fail \/ ~schema, prior |-> None, queries |-> 0,
   aiCalled |-> FALSE]

\* the same, for a request with a JSON payload
WithPayload(r, payload) == [r EXCEPT !.payload = Some(payload)]

\* the same, recording what the statement found in the tables before it ran
WithPrior(r, found) == [r EXCEPT !.prior = Some(found)]

\* the same, recording how many statements the handler executed
WithQueries(r, n) == [r EXCEPT !.queries = n]

(* ------------------------- startup initialization ---------------------- *)
\* variant: seeding that skips the COUNT(*) test
seed_always ==
  /\ seq["projects"] < MaxProjectId
  /\ LET pid == seq["projects"] + 1
         lid == seq["daily_logs"] + 1
     IN /\ projects' = projects \cup {SeedProject(pid)}
        /\ budget_items' = budget_items \cup SeedBudgetRows(pid, seq["budget_items"])
        /\ daily_logs' = daily_logs \cup {SeedLogRow(pid, seq["daily_logs"])}
        /\ daily_activities' = daily_activities
                                 \cup SeedActivityRows(lid, seq["daily_activities"])
        /\ cost_entries' = cost_entries \cup SeedCostRows(pid, seq["cost_entries"])
        /\ kpi_rows' = kpi_rows \cup SeedKpiRows(pid, seq)
        /\ seq' = [t \in TableNames |-> seq[t] + SeedCount(t)]

\* seed_if_empty: one db_cursor scope; COUNT(*) > 0 returns without writing
seed_if_empty ==
  IF projects # {}
  THEN UNCHANGED <<projects, daily_logs, daily_activities, cost_entries,
                   budget_items, kpi_rows, seq>>
  ELSE /\ seq["projects"] < MaxProjectId
       /\ LET pid == seq["projects"] + 1
              lid == seq["daily_logs"] + 1
          IN /\ projects' = {SeedProject(pid)}
             /\ budget_items' = budget_items \cup SeedBudgetRows(pid, seq["budget_items"])
             /\ daily_logs' = daily_logs \cup {SeedLogRow(pid, seq["daily_logs"])}
             /\ daily_activities' = daily_activities
                                      \cup SeedActivityRows(lid, seq["daily_activities"])
             /\ cost_entries' = cost_entries \cup SeedCostRows(pid, seq["cost_entries"])
             /\ kpi_rows' = kpi_rows \cup SeedKpiRows(pid, seq)
             /\ seq' = [t \in TableNames |-> seq[t] + SeedCount(t)]

\* init_db(); seed_if_empty() -- failAt names the call that raises, if any
InitAndSeed(failAt) ==
  IF failAt = "init_db"
  THEN UNCHANGED db
  ELSE /\ schema' = TRUE
       /\ IF failAt = "seed_if_empty"
          THEN UNCHANGED <<projects, daily_logs, daily_activities, cost_entries,
                           budget_items, kpi_rows, seq>>
          ELSE seed_if_empty

FailPoints == {"none", "init_db", "seed_if_empty"}

HistAfterInit(failAt) ==
  IF failAt = "none"
  THEN RunCompleted(hist, Snapshot(projects', daily_logs', daily_activities',
                                   cost_entries', budget_items', kpi_rows'))
  ELSE hist

\* variant: the platform flag is not consulted
NeverSkipsInit == FALSE

\* os.getenv("VERCEL") is a non-empty string: initialization is skipped
SkipsInit == VERCEL

\* module import: DB_AVAILABLE = True, then the guarded try block
ImportMain ==
  /\ phase = "boot"
  /\ phase' = "imported"
  /\ resp' = NoResp
  /\ UNCHANGED <<VERCEL, routeRows, head, category, aiCall, aiResult, fs, dbfile, procs>>
  /\ IF SkipsInit
     THEN /\ DB_AVAILABLE' = TRUE
          /\ UNCHANGED <<db, hist>>
     ELSE \E failAt \in FailPoints :
            /\ InitAndSeed(failAt)
            /\ DB_AVAILABLE' = (failAt = "none")
            /\ hist' = HistAfterInit(failAt)

\* the startup event handler
_startup ==
  /\ phase = "imported"
  /\ phase' = "serving"
  /\ resp' = NoResp
  /\ UNCHANGED <<VERCEL, routeRows, head, category, aiCall, aiResult, fs, dbfile, procs>>
  /\ IF SkipsInit
     THEN UNCHANGED <<DB_AVAILABLE, db, hist>>
     ELSE \E failAt \in FailPoints :
            /\ InitAndSeed(failAt)
            /\ DB_AVAILABLE' = (failAt = "none")
            /\ hist' = HistAfterInit(failAt)

\* api/index.py mounts the app under /api: a mounted app's startup event does not run
MountedUnderApi ==
  /\ phase = "imported"
  /\ phase' = "serving"
  /\ resp' = NoResp
  /\ UNCHANGED <<VERCEL, DB_AVAILABLE, db, hist, routeRows, head, category,
               aiCall, aiResult, fs, dbfile, procs>>

\* the process ends; the database file stays
Restart ==
  /\ phase = "serving"
  /\ resp = NoResp
  /\ phase' = "boot"
  /\ DB_AVAILABLE' = TRUE
  /\ resp' = NoResp
  /\ UNCHANGED <<VERCEL, db, hist, routeRows, head, category, aiCall, aiResult, fs, dbfile, procs>>

(* ------------------------------ queries -------------------------------- *)
ProjectIds == { p.id : p \in projects }
LogIds == { l.id : l \in daily_logs }

\* any statement raises when the scope cannot reach the tables
QueryFails(fail) == fail \/ ~schema

\* variant: connections opened without PRAGMA foreign_keys = ON never raise it
FKNeverViolated(parentIds, id) == FALSE

\* FOREIGN KEY constraint failed
FKViolation(parentIds, id) == ForeignKeysOn /\ id \notin parentIds

RECURSIVE OrderByIdDesc(_)
\* ORDER BY id DESC
OrderByIdDesc(rows) ==
  IF rows = {} THEN <<>>
  ELSE LET top == CHOOSE r \in rows : \A o \in rows : o.id <= r.id
       IN <<top>> \o OrderByIdDesc(rows \ {top})

\* Project(**row): the response keeps the fields of schemas.Project
ProjectView(r) ==
  [id |-> r.id, name |-> r.name, client |-> r.client, location |-> r.location,
   contract_no |-> r.contract_no, start_date |-> r.start_date, end_date |-> r.end_date,
   total_contract_value |-> r.total_contract_value,
   profit_margin_target |-> r.profit_margin_target, created_at |-> r.created_at]

RECURSIVE MapProjectView(_)
MapProjectView(rs) ==
  IF rs = <<>> THEN <<>> ELSE <<ProjectView(Head(rs))>> \o MapProjectView(Tail(rs))

MOCK_PROJECTS ==
  << [id |-> 1, name |-> SampleName, client |-> "Indian Railways / PWD",
      location |-> "Maharashtra", contract_no |-> Some("PWD-IR-ROB-001"),
      start_date |-> Some(20260101), end_date |-> Some(20261231),
      total_contract_value |-> Some(100000000), profit_margin_target |-> 12,
      created_at |-> "2026-01-01T00:00:00", status |-> "Execution"] >>

\* SELECT * FROM daily_logs WHERE project_id = ? ORDER BY log_date DESC, id DESC (no range)
list_daily_logs(logs, pid) == { l \in logs : l.project_id = pid }
\* SELECT * FROM daily_activities WHERE daily_log_id = ?
list_daily_activities(acts, lid) == { a \in acts : a.daily_log_id = lid }
\* SELECT * FROM cost_entries WHERE project_id = ? (no range)
list_costs(costs, pid) == { c \in costs : c.project_id = pid }
\* SELECT * FROM budget_items WHERE project_id = ?
list_budgets(budgets, pid) == { b \in budgets : b.project_id = pid }
\* SELECT * FROM <kpi table> WHERE project_id = ?
list_kpi(rows, t, pid) == { k \in rows : k.table = t /\ k.project_id = pid }

(* --------------------------- route handlers ---------------------------- *)
\* requests are handled one at a time: the previous response has been returned
Serving == phase = "serving" /\ resp = NoResp

\* ids a request may name: every id in the table and one that is in no table
ProjectArgs == ProjectIds \cup {seq["projects"] + 1}
LogArgs == LogIds \cup {seq["daily_logs"] + 1}

\* a create route may still add a row
UnderCap == routeRows < MaxRouteRows

\* a route handler ran: the history of startup-only runs ends
Handled == hist' = NoHistory

\* variant: the route handlers declare the flag global and clear it
FrameFlagCleared ==
  /\ DB_AVAILABLE' = FALSE
  /\ UNCHANGED <<VERCEL, phase, schema, head, category, aiCall, aiResult, fs, dbfile, procs>>

\* what no route handler assigns: the flag (no handler declares it global), the
\* environment, the schema
Frame ==
  UNCHANGED <<VERCEL, phase, DB_AVAILABLE, schema, head, category, aiCall, aiResult,
              fs, dbfile, procs>>

\* variant: GET /projects without the availability test and the except branch
ListProjectsBodyUnmasked(avail, fails, rows) ==
  IF fails THEN <<>> ELSE MapProjectView(OrderByIdDesc(rows))

\* the body of GET /projects
ListProjectsBody(avail, fails, rows) ==
  IF ~avail THEN MapProjectView(MOCK_PROJECTS)
  ELSE IF fails THEN MapProjectView(MOCK_PROJECTS)
  ELSE MapProjectView(OrderByIdDesc(rows))

\* variant: the except branch declares the flag global and clears it
FlagClearedByExcept(avail, fails) == avail /\ ~fails

\* the flag after GET /projects: the except branch prints and returns, it assigns nothing
FlagAfterListProjects(avail, fails) == avail

\* GET /projects
list_projects ==
  \E fail \in BOOLEAN :
    /\ Serving
    /\ resp' = Response("list_projects", 0, 200,
                        ListProjectsBody(DB_AVAILABLE, QueryFails(fail), projects), fail)
    /\ Handled
    /\ DB_AVAILABLE' = FlagAfterListProjects(DB_AVAILABLE, QueryFails(fail))
    /\ UNCHANGED <<VERCEL, phase, schema, head, category, aiCall, aiResult, fs, dbfile,
                   procs>>
    /\ UNCHANGED <<projects, daily_logs, daily_activities, cost_entries,
                   budget_items, kpi_rows, seq, routeRows>>

ProjectPayloads ==
  { [name |-> "Metro Viaduct", client |-> "MMRDA", location |-> "Mumbai",
     total_contract_value |-> Some(5000), profit_margin_target |-> 10],
    [name |-> "X", client |-> "MMRDA", location |-> "Mumbai",
     total_contract_value |-> None, profit_margin_target |-> 10] }

\* ProjectCreate: name has min_length 2
ValidProject(payload) == Len(payload.name) >= 2

\* POST /projects
create_project ==
  \E payload \in ProjectPayloads, fail \in BOOLEAN :
    /\ Serving /\ Handled /\ Frame
    /\ UNCHANGED <<daily_logs, daily_activities, cost_entries, budget_items, kpi_rows,
                   routeRows>>
    /\ IF ~ValidProject(payload)
       THEN /\ resp' = Response("create_project", 0, 422, None, FALSE)
            /\ UNCHANGED <<projects, seq>>
       ELSE IF QueryFails(fail)
       THEN /\ resp' = Response("create_project", 0, 500, None, fail)
            /\ UNCHANGED <<projects, seq>>
       ELSE /\ seq["projects"] < MaxProjectId
            /\ LET row == [id |-> seq["projects"] + 1, name |-> payload.name,
                           client |-> payload.client, location |-> payload.location,
                           contract_no |-> None, start_date |-> None, end_date |-> None,
                           total_contract_value |-> payload.total_contract_value,
                           profit_margin_target |-> payload.profit_margin_target,
                           status |-> "Planning", created_at |-> "now"]
               IN /\ projects' = projects \cup {row}
                  /\ seq' = [seq EXCEPT !["projects"] = row.id]
                  /\ resp' = Response("create_project", row.id, 200, Some(ProjectView(row)), fail)

\* ON DELETE CASCADE from projects, and from daily_logs to daily_activities
CascadeLogs(logs, pid) ==
  IF ForeignKeysOn THEN { l \in logs : l.project_id # pid } ELSE logs
\* variant: daily_activities without ON DELETE CASCADE
CascadeActivitiesNone(acts, logs, pid) == acts
CascadeActivities(acts, logs, pid) ==
  IF ForeignKeysOn
  THEN { a \in acts : ~\E l \in logs : l.id = a.daily_log_id /\ l.project_id = pid }
  ELSE acts
CascadeRows(rows, pid) ==
  IF ForeignKeysOn THEN { r \in rows : r.project_id # pid } ELSE rows

\* how many rows of each child table a project owns
Owned(pid) ==
  [daily_logs |-> Cardinality(list_daily_logs(daily_logs, pid)),
   daily_activities |->
     Cardinality({ a \in daily_activities :
                     \E l \in list_daily_logs(daily_logs, pid) : a.daily_log_id = l.id }),
   cost_entries |-> Cardinality(list_costs(cost_entries, pid)),
   budget_items |-> Cardinality(list_budgets(budget_items, pid))]

\* variant: a rowcount that reports a deleted row whatever the table held
RowcountAlwaysOne(rows, pid) == 1

\* rowcount of DELETE FROM projects WHERE id = ?
DeleteRowcount(rows, pid) == Cardinality({ p \in rows : p.id = pid })

\* DELETE /projects/{project_id}
delete_project ==
  \E pid \in ProjectArgs, fail \in BOOLEAN :
    /\ Serving /\ Handled /\ Frame
    /\ UNCHANGED <<seq, routeRows>>
    /\ IF QueryFails(fail)
       THEN /\ resp' = Response("delete_project", pid, 500, None, fail)
            /\ UNCHANGED tables
       ELSE IF DeleteRowcount(projects, pid) = 0
       THEN /\ resp' = Response("delete_project", pid, 404, None, fail)
            /\ UNCHANGED tables
       ELSE /\ projects' = { p \in projects : p.id # pid }
            /\ daily_logs' = CascadeLogs(daily_logs, pid)
            /\ daily_activities' = CascadeActivities(daily_activities, daily_logs, pid)
            /\ cost_entries' = CascadeRows(cost_entries, pid)
            /\ budget_items' = CascadeRows(budget_items, pid)
            /\ kpi_rows' = CascadeRows(kpi_rows, pid)
            /\ resp' = WithPrior(Response("delete_project", pid, 200, None, fail),
                                  Owned(pid))

\* POST /daily-logs
create_daily_log ==
  \E pid \in ProjectArgs, fail \in BOOLEAN :
    /\ Serving /\ Handled /\ Frame
    /\ UNCHANGED <<projects, daily_activities, cost_entries, budget_items, kpi_rows>>
    /\ IF QueryFails(fail) \/ FKViolation(ProjectIds, pid)
       THEN /\ resp' = Response("create_daily_log", pid, 500, None, fail)
            /\ UNCHANGED <<daily_logs, seq, routeRows>>
       ELSE /\ UnderCap
            /\ routeRows' = routeRows + 1
            /\ LET row == [id |-> seq["daily_logs"] + 1, project_id |-> pid,
                           log_date |-> 20260201]
               IN /\ daily_logs' = daily_logs \cup {row}
                  /\ seq' = [seq EXCEPT !["daily_logs"] = row.id]
                  /\ resp' = Response("create_daily_log", pid, 200, Some(row), fail)

\* POST /daily-activities
create_daily_activity ==
  \E lid \in LogArgs, fail \in BOOLEAN :
    /\ Serving /\ Handled /\ Frame
    /\ UNCHANGED <<projects, daily_logs, cost_entries, budget_items, kpi_rows>>
    /\ IF QueryFails(fail) \/ FKViolation(LogIds, lid)
       THEN /\ resp' = Response("create_daily_activity", lid, 500, None, fail)
            /\ UNCHANGED <<daily_activities, seq, routeRows>>
       ELSE /\ UnderCap
            /\ routeRows' = routeRows + 1
            /\ LET row == [id |-> seq["daily_activities"] + 1, daily_log_id |-> lid,
                           category |-> "Pier", activity |-> "Pier cap shuttering"]
               IN /\ daily_activities' = daily_activities \cup {row}
                  /\ seq' = [seq EXCEPT !["daily_activities"] = row.id]
                  /\ resp' = Response("create_daily_activity", lid, 200, Some(row), fail)

CostPayloads ==
  { [entry_date |-> 20260210, cost_head |-> H_Labour, amount |-> 100,
     quantity |-> None, uom |-> None],
    [entry_date |-> 20260115, cost_head |-> H_Steel,  amount |-> 250,
     quantity |-> Some(20), uom |-> Some("MT")] }

\* POST /costs
create_cost ==
  \E pid \in ProjectArgs, payload \in CostPayloads, fail \in BOOLEAN :
    /\ Serving /\ Handled /\ Frame
    /\ UNCHANGED <<projects, daily_logs, daily_activities, budget_items, kpi_rows>>
    /\ IF QueryFails(fail) \/ FKViolation(ProjectIds, pid)
       THEN /\ resp' = Response("create_cost", pid, 500, None, fail)
            /\ UNCHANGED <<cost_entries, seq, routeRows>>
       ELSE /\ UnderCap
            /\ routeRows' = routeRows + 1
            /\ LET row == [id |-> seq["cost_entries"] + 1, project_id |-> pid,
                           entry_date |-> payload.entry_date,
                           cost_head |-> payload.cost_head,
                           amount |-> payload.amount, quantity |-> payload.quantity,
                           uom |-> payload.uom]
               IN /\ cost_entries' = cost_entries \cup {row}
                  /\ seq' = [seq EXCEPT !["cost_entries"] = row.id]
                  /\ resp' = Response("create_cost", pid, 200, Some(row), fail)

BudgetPayloads ==
  { [cost_head |-> H_Labour, budget_amount |-> 100, notes |-> None],
    [cost_head |-> H_Labour, budget_amount |-> 150, notes |-> Some("revised")],
    [cost_head |-> H_Steel,  budget_amount |-> 100, notes |-> Some("new head")] }

\* the rows of budget_items the UNIQUE(project_id, cost_head) index matches
Conflicting(rows, pid, h) == { b \in rows : b.project_id = pid /\ b.cost_head = h }

\* variant: DO UPDATE SET budget_amount = excluded.budget_amount only
DoUpdateAmountOnly(row, payload) ==
  [row EXCEPT !.budget_amount = payload.budget_amount]

\* DO UPDATE SET budget_amount = excluded.budget_amount, notes = excluded.notes
DoUpdate(row, payload) ==
  [row EXCEPT !.budget_amount = payload.budget_amount, !.notes = payload.notes]

\* INSERT ... ON CONFLICT(project_id, cost_head) DO UPDATE ...: the table afterwards
UpsertRows(rows, newId, pid, payload) ==
  IF BudgetUniqueConstraint /\ Conflicting(rows, pid, payload.cost_head) # {}
  THEN { IF b \in Conflicting(rows, pid, payload.cost_head) THEN DoUpdate(b, payload) ELSE b
         : b \in rows }
  ELSE rows \cup { [id |-> newId, project_id |-> pid, cost_head |-> payload.cost_head,
                    budget_amount |-> payload.budget_amount, notes |-> payload.notes] }

\* POST /budgets/upsert
upsert_budget ==
  \E pid \in ProjectArgs, payload \in BudgetPayloads, fail \in BOOLEAN :
    /\ Serving /\ Handled /\ Frame
    /\ UNCHANGED <<projects, daily_logs, daily_activities, cost_entries, kpi_rows>>
    /\ IF QueryFails(fail) \/ FKViolation(ProjectIds, pid)
       THEN /\ resp' = WithPayload(Response("upsert_budget", pid, 500, None, fail), payload)
            /\ UNCHANGED <<budget_items, seq, routeRows>>
       ELSE LET newId == seq["budget_items"] + 1
                after == UpsertRows(budget_items, newId, pid, payload)
                inserted == \E b \in after : b.id = newId
                \* SELECT * ... WHERE project_id = ? AND cost_head = ?; fetchone()
                row == CHOOSE b \in Conflicting(after, pid, payload.cost_head) :
                         \A o \in Conflicting(after, pid, payload.cost_head) : b.id <= o.id
            IN /\ inserted => UnderCap
               /\ routeRows' = IF inserted THEN routeRows + 1 ELSE routeRows
               /\ budget_items' = after
               /\ seq' = IF inserted THEN [seq EXCEPT !["budget_items"] = newId] ELSE seq
               /\ resp' = WithPrior(
                            WithPayload(Response("upsert_budget", pid, 200, Some(row), fail),
                                        payload),
                            Conflicting(budget_items, pid, payload.cost_head))

\* a plain INSERT INTO budget_items in its own db_cursor scope, as the seed issues it
insert_budget_item ==
  \E pid \in ProjectArgs, payload \in BudgetPayloads, fail \in BOOLEAN :
    /\ Serving /\ Handled /\ Frame
    /\ UNCHANGED <<projects, daily_logs, daily_activities, cost_entries, kpi_rows>>
    /\ IF \/ QueryFails(fail)
          \/ FKViolation(ProjectIds, pid)
          \/ (BudgetUniqueConstraint /\ Conflicting(budget_items, pid, payload.cost_head) # {})
       THEN /\ resp' = WithPayload(Response("insert_budget_item", pid, 500, None, fail),
                                    payload)
            /\ UNCHANGED <<budget_items, seq, routeRows>>
       ELSE /\ UnderCap
            /\ routeRows' = routeRows + 1
            /\ LET row == [id |-> seq["budget_items"] + 1, project_id |-> pid,
                           cost_head |-> payload.cost_head,
                           budget_amount |-> payload.budget_amount,
                           notes |-> payload.notes]
               IN /\ budget_items' = budget_items \cup {row}
                  /\ seq' = [seq EXCEPT !["budget_items"] = row.id]
                  /\ resp' = WithPayload(
                               Response("insert_budget_item", pid, 200, Some(row), fail),
                               payload)

\* POST /project-milestones, the pattern of every KPI create route
create_project_milestone ==
  \E pid \in ProjectArgs, fail \in BOOLEAN :
    /\ Serving /\ Handled /\ Frame
    /\ UNCHANGED <<projects, daily_logs, daily_activities, cost_entries, budget_items>>
    /\ IF QueryFails(fail) \/ FKViolation(ProjectIds, pid)
       THEN /\ resp' = Response("create_project_milestone", pid, 500, None, fail)
            /\ UNCHANGED <<kpi_rows, seq, routeRows>>
       ELSE /\ UnderCap
            /\ routeRows' = routeRows + 1
            /\ LET row == [table |-> "project_milestones",
                           id |-> seq["project_milestones"] + 1,
                           project_id |-> pid, record_date |-> None,
                           total_actual |-> None]
               IN /\ kpi_rows' = kpi_rows \cup {row}
                  /\ seq' = [seq EXCEPT !["project_milestones"] = row.id]
                  /\ resp' = Response("create_project_milestone", pid, 200, Some(row), fail)

(* ------------------------------ job costing ---------------------------- *)
\* str.lower() on one character
LowerChar(c) ==
  CASE c = "A" -> "a" [] c = "B" -> "b" [] c = "C" -> "c" [] c = "D" -> "d"
    [] c = "E" -> "e" [] c = "F" -> "f" [] c = "G" -> "g" [] c = "H" -> "h"
    [] c = "I" -> "i" [] c = "J" -> "j" [] c = "K" -> "k" [] c = "L" -> "l"
    [] c = "M" -> "m" [] c = "N" -> "n" [] c = "O" -> "o" [] c = "P" -> "p"
    [] c = "Q" -> "q" [] c = "R" -> "r" [] c = "S" -> "s" [] c = "T" -> "t"
    [] c = "U" -> "u" [] c = "V" -> "v" [] c = "W" -> "w" [] c = "X" -> "x"
    [] c = "Y" -> "y" [] c = "Z" -> "z" [] OTHER -> c

\* variant: the head compared as written, without lower()
NotLowered(h) == h

\* (cost_head or "").lower()
Lower(h) == [i \in 1..Len(h) |-> LowerChar(h[i])]

RECURSIVE FindFrom(_, _, _)
FindFrom(needle, h, i) ==
  IF i + Len(needle) - 1 > Len(h) THEN FALSE
  ELSE IF SubSeq(h, i, i + Len(needle) - 1) = needle THEN TRUE
  ELSE FindFrom(needle, h, i + 1)

\* needle in h
In(needle, h) == FindFrom(needle, h, 1)

W_labour == <<"l","a","b","o","u","r">>
W_labor == <<"l","a","b","o","r">>
W_material == <<"m","a","t","e","r","i","a","l">>
W_machinery == <<"m","a","c","h","i","n","e","r","y">>
W_equipment == <<"e","q","u","i","p","m","e","n","t">>
W_subcontract == <<"s","u","b","c","o","n","t","r","a","c","t">>

\* variant: the "material" test placed before the "labour" test
category_material_first(cost_head) ==
  LET h == Lower(cost_head)
  IN IF In(W_material, h) THEN "Materials"
     ELSE IF In(W_labour, h) \/ In(W_labor, h) THEN "Labour"
     ELSE IF In(W_machinery, h) \/ In(W_equipment, h) THEN "Equipment"
     ELSE IF In(W_subcontract, h) THEN "Subcontractors"
     ELSE "Other"

\* _job_costing_category_for_head: the first test that matches decides
_job_costing_category_for_head(cost_head) ==
  LET h == Lower(cost_head)
  IN IF In(W_labour, h) \/ In(W_labor, h) THEN "Labour"
     ELSE IF In(W_material, h) THEN "Materials"
     ELSE IF In(W_machinery, h) \/ In(W_equipment, h) THEN "Equipment"
     ELSE IF In(W_subcontract, h) THEN "Subcontractors"
     ELSE "Other"

\* schemas.JobCostingSummary: the fields that have no default
JobCostingSummaryRequired ==
  {"project_id", "project_name", "client", "location",
   "total_planned_cost", "total_actual_cost", "categories"}

\* the keyword arguments of the JobCostingSummary(...) calls inside job_costing
\* (the live return and both fallback returns pass the same names)
JobCostingSummaryKwargs ==
  {"project_id", "project_name", "total_budget", "total_actual_cost",
   "total_variance", "percent_over_under_budget", "categories"}

\* pydantic: a required field that is not passed raises ValidationError
Validates(required, kwargs) == required \subseteq kwargs

FallbackCategories == <<"Labour", "Materials", "Equipment", "Subcontractors">>

\* the mock JobCostingSummary of job_costing
FallbackSummary(pid) ==
  [project_id |-> pid, project_name |-> SampleName, total_actual_cost |-> 8642040,
   categories |-> FallbackCategories]

\* db_cursor closes the connection when the scope ends: a cursor used after the
\* with block raises sqlite3.ProgrammingError
CursorUsableAfterScope == FALSE

\* what the try block of job_costing ends with
JobCostingTry(pid, fails) ==
  IF fails THEN "OperationalError"
  ELSE IF ~CursorUsableAfterScope THEN "ProgrammingError"
  ELSE IF pid \notin ProjectIds THEN "HTTPException404"
  ELSE IF ~Validates(JobCostingSummaryRequired, JobCostingSummaryKwargs) THEN "ValidationError"
  ELSE "return"

\* except Exception: HTTPException is an Exception as well
CaughtByExcept(outcome) == outcome # "return"

\* the fallback return: constructing the mock summary validates it
JobCostingFallback(pid) ==
  IF Validates(JobCostingSummaryRequired, JobCostingSummaryKwargs)
  THEN [status |-> 200, body |-> Some(FallbackSummary(pid))]
  ELSE [status |-> 500, body |-> None]

\* from_date and to_date of the query string
Windows ==
  { [from |-> None, to |-> None],
    [from |-> Some(20260122), to |-> Some(20260210)] }

\* entry_date >= ? and entry_date <= ?, each only when the bound is given
InWindow(d, w) ==
  /\ (w.from = None \/ d >= w.from[1])
  /\ (w.to = None \/ d <= w.to[1])

RECURSIVE SumField(_, _)
\* SUM(<column>) over rows, 0 for no rows
SumField(rows, fld) ==
  IF rows = {} THEN 0
  ELSE LET r == CHOOSE x \in rows : TRUE
       IN r[fld] + SumField(rows \ {r}, fld)

RECURSIVE SumQuantity(_)
\* SUM(COALESCE(quantity, 0))
SumQuantity(rows) ==
  IF rows = {} THEN 0
  ELSE LET r == CHOOSE x \in rows : TRUE
       IN (IF r.quantity = None THEN 0 ELSE r.quantity[1]) + SumQuantity(rows \ {r})

\* the distinct non-empty units of the rows
Uoms(rows) == { r.uom[1] : r \in { x \in rows : x.uom # None } }

\* the rows whose cost head falls in category cat
InCategory(rows, cat) ==
  { r \in rows : _job_costing_category_for_head(Chars(r.cost_head)) = cat }

\* the float n / d * times, kept as the exact quotient it rounds
Ratio(n, d, times) == [num |-> n, den |-> d, times |-> times]

\* WHERE project_id = ? [AND entry_date >= ?] [AND entry_date <= ?]
WindowedCosts(pid, w) == { c \in list_costs(cost_entries, pid) : InWindow(c.entry_date, w) }

\* one element of cats (built for the return after the try statement)
JobCostingCat(cat, budgets, costs) ==
  LET planned == SumField(InCategory(budgets, cat), "budget_amount")
      actual == SumField(InCategory(costs, cat), "amount")
      qty == SumQuantity(InCategory(costs, cat))
      uoms == Uoms(InCategory(costs, cat))
      total == SumField(costs, "amount")
  IN [category |-> cat, planned_cost |-> planned, actual_cost |-> actual,
      quantity |-> IF qty > 0 THEN Some(qty) ELSE None,
      uom |-> IF Cardinality(uoms) = 1 THEN Some(CHOOSE u \in uoms : TRUE) ELSE None,
      unit_cost |-> IF qty > 0 THEN Some(Ratio(actual, qty, 10)) ELSE None,
      percent_of_total_actual |->
        IF total > 0 THEN Ratio(actual, total, 100) ELSE Ratio(0, 1, 1),
      percent_over_under_budget |->
        IF planned > 0 THEN Some(Ratio(actual - planned, planned, 100)) ELSE None]

\* one element of the categories of the return inside the try block
JobCostingReturnedCat(cat, budgets, costs) ==
  LET planned == SumField(InCategory(budgets, cat), "budget_amount")
      actual == SumField(InCategory(costs, cat), "amount")
      qty == SumQuantity(InCategory(costs, cat))
      uoms == Uoms(InCategory(costs, cat))
      total == SumField(costs, "amount")
  IN [category |-> cat, planned_cost |-> planned, actual_cost |-> actual,
      quantity |-> IF qty > 0 THEN Some(qty) ELSE None,
      \* list(uoms)[0]: whichever unit the set yields first
      uom |-> IF uoms # {} THEN Some(CHOOSE u \in uoms : TRUE) ELSE None,
      unit_cost |-> IF qty > 0 /\ actual > 0 THEN Some(Ratio(actual, qty, 10)) ELSE None,
      percent_of_total_actual |->
        IF total > 0 THEN Ratio(actual, total, 100) ELSE Ratio(0, 1, 1),
      percent_over_under_budget |->
        IF planned > 0 THEN Some(Ratio(actual - planned, planned, 100))
        ELSE Some(Ratio(0, 1, 1))]

\* sorted(set(planned_by_cat.keys()) | set(actual_by_cat.keys()))
SortedCategories == <<"Equipment", "Labour", "Materials", "Other", "Subcontractors">>

\* the summary the return inside the try block constructs
JobCostingLive(pid, w) ==
  LET budgets == list_budgets(budget_items, pid)
      costs == WindowedCosts(pid, w)
      keys == SelectSeq(SortedCategories,
                        LAMBDA c : InCategory(budgets, c) # {} \/ InCategory(costs, c) # {})
  IN [project_id |-> pid,
      project_name |-> (CHOOSE p \in projects : p.id = pid).name,
      total_actual_cost |-> SumField(costs, "amount"),
      categories |-> [i \in 1..Len(keys) |-> JobCostingReturnedCat(keys[i], budgets, costs)]]

\* status and body of GET /projects/{id}/job-costing
JobCostingResult(avail, pid, w, fails) ==
  IF ~avail THEN JobCostingFallback(pid)
  ELSE IF CaughtByExcept(JobCostingTry(pid, fails)) THEN JobCostingFallback(pid)
  ELSE [status |-> 200, body |-> Some(JobCostingLive(pid, w))]

\* GET /projects/{project_id}/job-costing
job_costing ==
  \E pid \in ProjectArgs, w \in Windows, fail \in BOOLEAN :
    /\ Serving /\ Handled /\ Frame
    /\ UNCHANGED <<projects, daily_logs, daily_activities, cost_entries,
                   budget_items, kpi_rows, seq, routeRows>>
    /\ LET r == JobCostingResult(DB_AVAILABLE, pid, w, QueryFails(fail))
       IN resp' = WithPayload(Response("job_costing", pid, r.status, r.body, fail), w)

(* ------------------------------ AI assistant --------------------------- *)
\* the characters str.strip() removes
Whitespace == {" ", "\n", "\t"}

RECURSIVE StripLeft(_)
StripLeft(s) ==
  IF s # <<>> /\ Head(s) \in Whitespace THEN StripLeft(Tail(s)) ELSE s

RECURSIVE StripRight(_)
StripRight(s) ==
  IF s # <<>> /\ s[Len(s)] \in Whitespace THEN StripRight(SubSeq(s, 1, Len(s) - 1)) ELSE s

\* str.strip(): a text is a sequence of characters and of fixed pieces of text
Strip(s) == StripRight(StripLeft(s))

RECURSIVE Join(_)
\* "\n".join(lines)
Join(lines) ==
  IF lines = <<>> THEN <<>>
  ELSE IF Len(lines) = 1 THEN lines[1]
  ELSE lines[1] \o <<"\n">> \o Join(Tail(lines))

\* settings.openai_api_key is set and is not blank
_has_key(key) == key # None /\ Strip(key[1]) # <<>>

\* what the chat-completions endpoint does with the one POST of chat_online
OnlineOutcomes ==
  { [kind |-> k, content |-> <<>>] :
      k \in {"network", "status", "not_json", "null_content", "no_choices"} }
    \cup { [kind |-> "ok", content |-> c] :
             c \in {<<>>, <<" ", "\n">>, <<"o", "k">>, <<" ", "o", "k", "\n">>} }

\* chat_online: one client.post on a client without retries; the POST, raise_for_status, r.json() and the content lookup raise
\* on a network error, a non-2xx status, a body that is not JSON and a null
\* content; a reply without choices reads as ""; the content is stripped
chat_online(online) ==
  IF online.kind \in {"network", "status", "not_json", "null_content"}
  THEN [raised |-> TRUE, content |-> <<>>, posts |-> 1]
  ELSE IF online.kind = "no_choices"
  THEN [raised |-> FALSE, content |-> Strip(<<>>), posts |-> 1]
  ELSE [raised |-> FALSE, content |-> Strip(online.content), posts |-> 1]

LabelLine ==
  <<"Offline mode (no AI key). Here is a structured summary from your data:", "\n">>

SuggestedBlock ==
  <<"\n", "Suggested checks:", "\n",
    "- Compare top cost heads vs budget (steel, cement/RMC, machinery, labour)", "\n",
    "- Verify high-value bills and payment mode for cash flow", "\n",
    "- Confirm quantities logged for pile boring/concreting match bills">>

DprBlock ==
  <<"\n", "DPR format tip:", "\n",
    "- Mention location/chainage, activity, quantity, manpower, machinery, and constraints.">>

SuggestKeywords ==
  { <<"b","u","d","g","e","t">>, <<"v","a","r","i","a","n","c","e">>, <<"o","v","e","r">>,
    <<"u","n","d","e","r">>, <<"c","o","s","t">> }

DprKeywords ==
  { <<"d","p","r">>, <<"d","a","i","l","y">>, <<"p","r","o","g","r","e","s","s">>,
    <<"t","o","d","a","y">> }

\* variant: the keywords searched in the question as written
offline_answer_case_sensitive(question, context) ==
  Strip(Join(<<LabelLine, context>>
               \o (IF \E k \in SuggestKeywords : In(k, question)
                   THEN <<SuggestedBlock>> ELSE <<>>)
               \o (IF \E k \in DprKeywords : In(k, question)
                   THEN <<DprBlock>> ELSE <<>>)))

\* offline_answer
offline_answer(question, context) ==
  LET q == Lower(question)
  IN Strip(Join(<<LabelLine, context>>
                  \o (IF \E k \in SuggestKeywords : In(k, q) THEN <<SuggestedBlock>> ELSE <<>>)
                  \o (IF \E k \in DprKeywords : In(k, q) THEN <<DprBlock>> ELSE <<>>)))

\* AiResult, with whether the call raised and the POSTs it made
AiResult(raised, mode, text, posts) ==
  [raised |-> raised, mode |-> mode, answer |-> text, posts |-> posts]

\* variant: answer() without the except branch
answer_uncaught(question, context, key, online) ==
  IF ~_has_key(key) THEN AiResult(FALSE, "offline", offline_answer(question, context), 0)
  ELSE LET c == chat_online(online)
       IN IF c.raised THEN AiResult(TRUE, "none", <<>>, 1)
          ELSE IF c.content = <<>>
          THEN AiResult(FALSE, "offline", offline_answer(question, context), 1)
          ELSE AiResult(FALSE, "online", c.content, 1)

\* variant: answer() asks the endpoint once more when the first attempt gave nothing
answer_retrying(question, context, key, online) ==
  IF ~_has_key(key) THEN AiResult(FALSE, "offline", offline_answer(question, context), 0)
  ELSE LET c == chat_online(online)
       IN IF c.raised \/ c.content = <<>>
          THEN LET d == chat_online(online)
               IN AiResult(FALSE, "offline", offline_answer(question, context),
                           c.posts + d.posts)
          ELSE AiResult(FALSE, "online", c.content, c.posts)

\* answer
answer(question, context, key, online) ==
  IF ~_has_key(key) THEN AiResult(FALSE, "offline", offline_answer(question, context), 0)
  ELSE LET c == chat_online(online)
       IN IF c.raised
          THEN AiResult(FALSE, "offline", offline_answer(question, context), c.posts)
          ELSE IF c.content = <<>>
          THEN AiResult(FALSE, "offline", offline_answer(question, context), c.posts)
          ELSE AiResult(FALSE, "online", c.content, c.posts)

NoAiCall == [question |-> <<>>, context |-> <<>>, key |-> None,
             online |-> [kind |-> "network", content |-> <<>>]]
NoAiResult == AiResult(FALSE, "unset", <<>>, 0)

(* ---------------------------- dashboard summary ------------------------- *)
\* the cost heads of a set of rows
Heads(rows) == { r.cost_head : r \in rows }

\* cost_by_head: SUM(amount) ... GROUP BY cost_head over the windowed cost entries
CostByHead(costs) ==
  [h \in Heads(costs) |-> SumField({ c \in costs : c.cost_head = h }, "amount")]

\* budget_by_head[head] = amt, row by row (one row per head)
BudgetByHead(budgets) ==
  [h \in Heads(budgets) |-> SumField({ b \in budgets : b.cost_head = h }, "budget_amount")]

\* dict.get(head, 0.0)
GetOrZero(d, h) == IF h \in DOMAIN d THEN d[h] ELSE 0

\* variance_by_head over sorted(all_heads)
VarianceByHead(costByHead, budgetByHead) ==
  [h \in (DOMAIN budgetByHead) \cup (DOMAIN costByHead) |->
     GetOrZero(costByHead, h) - GetOrZero(budgetByHead, h)]

\* the DashboardSummary the return statement of summary constructs
\* (days_remaining, which reads the clock, is left out)
SummaryBody(pid, w) ==
  LET costs == WindowedCosts(pid, w)
      budgets == list_budgets(budget_items, pid)
      total_cost == SumField(costs, "amount")
      total_budget == SumField(budgets, "budget_amount")
  IN [project_id |-> pid, from_date |-> w.from, to_date |-> w.to,
      total_cost |-> total_cost, cost_by_head |-> CostByHead(costs),
      total_budget |-> total_budget, budget_by_head |-> BudgetByHead(budgets),
      variance_by_head |-> VarianceByHead(CostByHead(costs), BudgetByHead(budgets)),
      percent_over_under_budget |->
        IF total_budget > 0 THEN Some(Ratio(total_cost - total_budget, total_budget, 100))
        ELSE None,
      job_costing_categories |->
        [i \in 1..5 |-> JobCostingCat((FallbackCategories \o <<"Other">>)[i], budgets, costs)],
      recent_logs |-> { l \in list_daily_logs(daily_logs, pid) : InWindow(l.log_date, w) }]

\* "from .utils import row_to_dict" at line 486 makes row_to_dict a local name of
\* summary: at line 415 it is not bound yet, and the call raises UnboundLocalError
RowToDictBoundAtUse == FALSE

\* rows_to_dict (lines 502, 512) is defined nowhere: the call raises NameError
RowsToDictDefined == FALSE

\* status, body and statements executed of GET /projects/{id}/summary
SummaryResult(pid, w, fails) ==
  IF fails THEN [status |-> 500, body |-> None, queries |-> 1]
  ELSE IF pid \notin ProjectIds THEN [status |-> 404, body |-> None, queries |-> 1]
  ELSE IF ~RowToDictBoundAtUse THEN [status |-> 500, body |-> None, queries |-> 1]
  ELSE IF ~RowsToDictDefined THEN [status |-> 500, body |-> None, queries |-> 5]
  ELSE [status |-> 200, body |-> Some(SummaryBody(pid, w)), queries |-> 6]

\* GET /projects/{project_id}/summary
summary ==
  \E pid \in ProjectArgs, w \in Windows, fail \in BOOLEAN :
    /\ Serving /\ Handled /\ Frame
    /\ UNCHANGED <<projects, daily_logs, daily_activities, cost_entries,
                   budget_items, kpi_rows, seq, routeRows>>
    /\ LET r == SummaryResult(pid, w, QueryFails(fail))
       IN resp' = WithQueries(
                    WithPayload(Response("summary", pid, r.status, r.body, fail), w),
                    r.queries)

(* ------------------------ comprehensive dashboard ----------------------- *)
KpiSummaries ==
  {"progress_kpis", "cost_billing_kpis", "quality_safety_kpis", "labour_productivity_kpis",
   "machinery_materials_kpis", "approvals_compliance_kpis", "risk_stakeholder_kpis"}

\* schemas.ComprehensiveDashboard: the fields whose type does not admit None
ComprehensiveDashboardNotNone == {"project_id", "project_name", "client"} \cup KpiSummaries

\* the keyword arguments get_comprehensive_dashboard passes as None
ComprehensiveDashboardNoneKwargs == KpiSummaries

\* pydantic: None for a field whose type does not admit it raises ValidationError
AcceptsNone(notNone, noneKwargs) == notNone \cap noneKwargs = {}

\* the ComprehensiveDashboard the handler constructs
ComprehensiveDashboardBody(pid) ==
  LET proj == CHOOSE p \in projects : p.id = pid
  IN [project_id |-> pid, project_name |-> proj.name, client |-> proj.client,
      kpis |-> [k \in KpiSummaries |-> None]]

\* status, body and statements executed of the comprehensive dashboard
ComprehensiveDashboardResult(pid, fails) ==
  IF fails THEN [status |-> 500, body |-> None, queries |-> 1]
  ELSE IF pid \notin ProjectIds THEN [status |-> 404, body |-> None, queries |-> 1]
  ELSE IF ~AcceptsNone(ComprehensiveDashboardNotNone, ComprehensiveDashboardNoneKwargs)
  THEN [status |-> 500, body |-> None, queries |-> 1]
  ELSE [status |-> 200, body |-> Some(ComprehensiveDashboardBody(pid)), queries |-> 1]

\* GET /projects/{project_id}/comprehensive-dashboard
get_comprehensive_dashboard ==
  \E pid \in ProjectArgs, fail \in BOOLEAN :
    /\ Serving /\ Handled /\ Frame
    /\ UNCHANGED <<projects, daily_logs, daily_activities, cost_entries,
                   budget_items, kpi_rows, seq, routeRows>>
    /\ LET r == ComprehensiveDashboardResult(pid, QueryFails(fail))
       IN resp' = WithQueries(
                    Response("get_comprehensive_dashboard", pid, r.status, r.body, fail),
                    r.queries)

(* -------------------------------- AI chat ------------------------------- *)
Q_Why == <<"W","h","y","?">>
Q_Space == <<" ">>
Q_Budget == <<"B","u","d","g","e","t">>
Q_DPR == <<"D","P","R">>

\* the questions and ranges the chat route is asked with
AiChatPayloads ==
  { [question |-> Q_Why, window |-> [from |-> None, to |-> None]],
    [question |-> Q_Budget \o Q_Space \o Q_DPR,
     window |-> [from |-> Some(20260122), to |-> Some(20260210)]] }

\* the configured key and what the endpoint does during the request
AiChatEnvs ==
  { [key |-> None, online |-> [kind |-> "network", content |-> <<>>]],
    [key |-> Some(<<"s","k">>), online |-> [kind |-> "network", content |-> <<>>]],
    [key |-> Some(<<"s","k">>), online |-> [kind |-> "ok", content |-> <<"o","k">>]] }

\* n lines, one per row, each the formatted row
Lines(n, line) == [i \in 1..n |-> <<line>>]

\* min(limit, rows)
AtMost(limit, rows) == IF Cardinality(rows) > limit THEN limit ELSE Cardinality(rows)

\* ctx_lines: headers and one line per row; the text of a line is kept as its format
ContextLines(pid, w) ==
  LET logs == { l \in list_daily_logs(daily_logs, pid) : InWindow(l.log_date, w) }
      acts == { a \in daily_activities : a.daily_log_id \in { l.id : l \in logs } }
      cost_heads == Heads(WindowedCosts(pid, w))
      budgets == list_budgets(budget_items, pid)
  IN <<<<"Project: {name}">>,
       <<"Client: {client} | Location: {location} | Contract: {contract_no}">>>>
     \o (IF w.from # None \/ w.to # None
         THEN <<<<"Range: {from_date} to {to_date}">>>> ELSE <<>>)
     \o <<<<>>>>
     \o (IF logs # {}
         THEN <<<<"Recent daily logs (top 15):">>>>
              \o Lines(AtMost(15, logs), "- {log_date}: Weather={weather} | Remarks={remarks}")
              \o <<<<>>>>
         ELSE <<>>)
     \o (IF acts # {}
         THEN <<<<"Recent activities (top 60):">>>>
              \o Lines(AtMost(60, acts), "- {log_date} [{category}] {activity} | Qty | Labour | Mach")
              \o <<<<>>>>
         ELSE <<>>)
     \o (IF cost_heads # {}
         THEN <<<<"Costs by head (sum):">>>>
              \o Lines(AtMost(15, cost_heads), "- {cost_head}: {amt}")
              \o <<<<>>>>
         ELSE <<>>)
     \o (IF budgets # {}
         THEN <<<<"Budget heads:">>>>
              \o Lines(AtMost(20, budgets), "- {cost_head}: {budget_amount}")
              \o <<<<>>>>
         ELSE <<>>)

\* context = "\n".join(ctx_lines).strip()
Context(pid, w) == Strip(Join(ContextLines(pid, w)))

\* statements of the scope of ai_chat: the activities query runs only if logs were found
AiChatQueries(pid, w) ==
  IF { l \in list_daily_logs(daily_logs, pid) : InWindow(l.log_date, w) } # {} THEN 5 ELSE 4

\* variant: the assistant asked before the project is looked up
AiChatResultAskFirst(pid, payload, env, fails) ==
  LET res == answer(payload.question, <<>>, env.key, env.online)
  IN IF fails THEN [status |-> 500, body |-> None, queries |-> 1, aiCalled |-> TRUE]
     ELSE IF pid \notin ProjectIds
     THEN [status |-> 404, body |-> None, queries |-> 1, aiCalled |-> TRUE]
     ELSE [status |-> 200, body |-> Some([mode |-> res.mode, answer |-> res.answer]),
           queries |-> AiChatQueries(pid, payload.window), aiCalled |-> TRUE]

\* status, body, statements executed and whether answer() was called, of ai_chat
AiChatResult(pid, payload, env, fails) ==
  IF fails THEN [status |-> 500, body |-> None, queries |-> 1, aiCalled |-> FALSE]
  ELSE IF pid \notin ProjectIds
  THEN [status |-> 404, body |-> None, queries |-> 1, aiCalled |-> FALSE]
  ELSE LET res == answer(payload.question, Context(pid, payload.window), env.key, env.online)
       IN IF res.raised
          THEN [status |-> 500, body |-> None,
                queries |-> AiChatQueries(pid, payload.window), aiCalled |-> TRUE]
          ELSE [status |-> 200, body |-> Some([mode |-> res.mode, answer |-> res.answer]),
                queries |-> AiChatQueries(pid, payload.window), aiCalled |-> TRUE]

\* POST /ai/chat
ai_chat ==
  \E pid \in ProjectArgs, payload \in AiChatPayloads, env \in AiChatEnvs, fail \in BOOLEAN :
    /\ Serving /\ Handled /\ Frame
    /\ UNCHANGED <<projects, daily_logs, daily_activities, cost_entries,
                   budget_items, kpi_rows, seq, routeRows>>
    /\ LET r == AiChatResult(pid, payload, env, QueryFails(fail))
       IN resp' = [WithQueries(
                     WithPayload(Response("ai_chat", pid, r.status, r.body, fail),
                                 [question |-> payload.question, window |-> payload.window,
                                  key |-> env.key, online |-> env.online]),
                     r.queries)
                   EXCEPT !.aiCalled = r.aiCalled]

(* --------------------------- portfolio overview ------------------------- *)
\* variant: every project counted as active
ActiveStatusesAny == {"Planning", "Execution", "Monitoring", "Delayed", "Completed"}

\* status IN ('Planning', 'Execution', 'Monitoring')
ActiveStatuses == {"Planning", "Execution", "Monitoring"}

RECURSIVE SumContractValue(_)
\* SUM(total_contract_value): NULLs are skipped; "or 0" turns no value into 0
SumContractValue(rows) ==
  IF rows = {} THEN 0
  ELSE LET r == CHOOSE x \in rows : TRUE
       IN (IF r.total_contract_value = None THEN 0 ELSE r.total_contract_value[1])
            + SumContractValue(rows \ {r})

\* the PortfolioOverview the handler constructs; x * 0.7 is kept as x * 7 / 10
PortfolioOverviewBody(rows) ==
  LET contract_value == SumContractValue(rows)
  IN [total_projects |-> Cardinality(rows),
      active_projects |-> Cardinality({ p \in rows : p.status \in ActiveStatuses }),
      delayed_projects |-> Cardinality({ p \in rows : p.status = "Delayed" }),
      total_contract_value |-> contract_value,
      total_billed_value |-> Ratio(contract_value, 10, 7),
      overall_progress |-> 65, safety_incidents_total |-> 5, quality_ncrs_total |-> 12,
      projects_by_client |->
        [c \in { p.client : p \in rows } |-> Cardinality({ p \in rows : p.client = c })],
      projects_by_status |->
        [t \in { p.status : p \in rows } |-> Cardinality({ p \in rows : p.status = t })]]

\* GET /portfolio-overview
get_portfolio_overview ==
  \E fail \in BOOLEAN :
    /\ Serving /\ Handled /\ Frame
    /\ UNCHANGED <<projects, daily_logs, daily_activities, cost_entries,
                   budget_items, kpi_rows, seq, routeRows>>
    /\ resp' = IF QueryFails(fail)
               THEN Response("get_portfolio_overview", 0, 500, None, fail)
               ELSE Response("get_portfolio_overview", 0, 200,
                             Some(PortfolioOverviewBody(projects)), fail)

(* --------------------------- standalone health -------------------------- *)
\* the step of the db_cursor scope that raises, if any: get_connection, the
\* SELECT 1, the commit at the end of the scope
HealthFailPoints == {"none", "connect", "execute", "commit"}

\* str(e) of the exception the step raises
ExceptionText(failAt) ==
  CASE failAt = "connect" -> "unable to open database file"
    [] failAt = "execute" -> "disk I/O error"
    [] failAt = "commit"  -> "database is locked"

\* variant: the commit at the end of the scope outside the try
HealthResultCommitUncaught(failAt) ==
  IF failAt = "none"
  THEN [raised |-> FALSE, statusCode |-> 200,
        body |-> Some([status |-> "ok", database |-> "connected"])]
  ELSE IF failAt = "commit"
  THEN [raised |-> TRUE, statusCode |-> 0, body |-> None]
  ELSE [raised |-> FALSE, statusCode |-> 500,
        body |-> Some([status |-> "error", message |-> ExceptionText(failAt)])]

\* what handler(request) returns: the whole scope is inside the try
HealthResult(failAt) ==
  IF failAt = "none"
  THEN [raised |-> FALSE, statusCode |-> 200,
        body |-> Some([status |-> "ok", database |-> "connected"])]
  ELSE [raised |-> FALSE, statusCode |-> 500,
        body |-> Some([status |-> "error", message |-> ExceptionText(failAt)])]

\* api/health.py: handler(request), a function of its own that opens its own scope
handler ==
  \E failAt \in HealthFailPoints :
    /\ resp = NoResp
    /\ Handled
    /\ UNCHANGED <<VERCEL, phase, DB_AVAILABLE, db, routeRows, head, category,
                   aiCall, aiResult, dbfile, procs>>
    /\ fs' \in ConnectFs(fs, failAt = "connect")
    /\ LET r == HealthResult(failAt)
       IN resp' = [WithPayload(Response("handler", 0, r.statusCode, r.body, FALSE),
                               [failAt |-> failAt, raised |-> r.raised])
                   EXCEPT !.dbErr = (failAt # "none"), !.prior = Some(fs)]

\* the response of the request in hand is returned to the caller
Respond ==
  /\ resp # NoResp
  /\ resp' = NoResp
  /\ UNCHANGED <<VERCEL, phase, DB_AVAILABLE, db, hist, routeRows, head, category,
               aiCall, aiResult, fs, dbfile, procs>>

(* --------------------------- specification ----------------------------- *)
Init ==
  /\ VERCEL \in BOOLEAN
  /\ phase = "boot"
  /\ DB_AVAILABLE = TRUE
  /\ schema = FALSE
  /\ projects = {} /\ daily_logs = {} /\ daily_activities = {}
  /\ cost_entries = {} /\ budget_items = {} /\ kpi_rows = {}
  /\ seq = [t \in TableNames |-> 0]
  /\ resp = NoResp
  /\ routeRows = 0
  /\ hist = [pure |-> TRUE, runs |-> 0, first |-> Snapshot({}, {}, {}, {}, {}, {})]
  /\ head = <<>>
  /\ category = "unset"
  /\ aiCall = NoAiCall
  /\ aiResult = NoAiResult
  /\ fs = FsFull
  /\ dbfile = NoDbFile
  /\ procs = NoProcs

Next ==
  \/ ImportMain
  \/ _startup
  \/ MountedUnderApi
  \/ Restart
  \/ list_projects
  \/ create_project
  \/ delete_project
  \/ create_daily_log
  \/ create_daily_activity
  \/ create_cost
  \/ upsert_budget
  \/ insert_budget_item
  \/ create_project_milestone
  \/ job_costing
  \/ Respond

Spec == Init /\ [][Next]_vars

(* ------------------- the dashboards, the chat and the probe ------------- *)
\* startup, the routes that add projects and cost entries, and the read side
NextDashboards ==
  \/ ImportMain
  \/ _startup
  \/ MountedUnderApi
  \/ Restart
  \/ create_project
  \/ create_cost
  \/ summary
  \/ get_comprehensive_dashboard
  \/ ai_chat
  \/ get_portfolio_overview
  \/ handler
  \/ Respond

SpecDashboards == Init /\ [][NextDashboards]_vars

(* -------------------------- classification run ------------------------- *)
\* pieces cost heads are put together from: the category words in several
\* spellings, halves of words, separators, and whole heads
F_Labour == <<"L","a","b","o","u","r">>
F_LABOR == <<"L","A","B","O","R">>
F_lab == <<"l","a","b">>
F_our == <<"o","u","r">>
F_Material == <<"M","a","t","e","r","i","a","l">>
F_MACHINERY == <<"M","A","C","H","I","N","E","R","Y">>
F_Equipment == <<"E","q","u","i","p","m","e","n","t">>
F_equip == <<"e","q","u","i","p">>
F_ment == <<"m","e","n","t">>
F_Subcontract == <<"s","u","b","C","o","n","t","r","a","c","t">>
F_Dash == <<" ","-"," ">>
F_Rent == <<"R","e","n","t">>
F_MasonWages == <<"L","a","b","o","u","r"," ","-"," ","M","a","s","o","n"," ","W","a","g","e","s">>
F_ReadyMix == <<"R","e","a","d","y"," ","M","i","x"," ","C","o","n","c","r","e","t","e">>
F_CraneRental == <<"C","r","a","n","e"," ","R","e","n","t","a","l">>
F_ABCSub == <<"A","B","C"," ","S","u","b","c","o","n","t","r","a","c","t","o","r","s"," ","P","v","t"," ","L","t","d">>
F_SiteOffice == <<"S","i","t","e"," ","O","f","f","i","c","e"," ","R","e","n","t">>

Fragments ==
  {F_Labour, F_LABOR, F_lab, F_our, F_Material, F_MACHINERY,
   F_Equipment, F_equip, F_ment, F_Subcontract, F_Dash, F_Rent,
   F_MasonWages, F_ReadyMix, F_CraneRental, F_ABCSub, F_SiteOffice}

RECURSIVE Concats(_)
\* the concatenations of at most n fragments
Concats(n) ==
  IF n = 0 THEN {<<>>}
  ELSE LET shorter == Concats(n - 1)
       IN shorter \cup { a \o f : a \in shorter, f \in Fragments }

\* the cost heads classified: None (read as ""), the seed's heads, and the concatenations
HeadInputs ==
  Concats(MaxFrags)
    \cup { Chars(h) : h \in {H_MaterialsSteel, H_MaterialsCement, H_Labour, H_Machinery,
                              H_Subcontract, H_Fuel, H_TestingQA, H_Overheads, H_Steel} }

\* one call of _job_costing_category_for_head
Classify ==
  /\ phase = "classify"
  /\ category = "unset"
  /\ category' = _job_costing_category_for_head(head)
  /\ UNCHANGED <<VERCEL, phase, DB_AVAILABLE, db, resp, hist, routeRows, head,
               aiCall, aiResult, fs, dbfile, procs>>

InitClassify ==
  /\ VERCEL = FALSE
  /\ phase = "classify"
  /\ DB_AVAILABLE = TRUE
  /\ schema = FALSE
  /\ projects = {} /\ daily_logs = {} /\ daily_activities = {}
  /\ cost_entries = {} /\ budget_items = {} /\ kpi_rows = {}
  /\ seq = [t \in TableNames |-> 0]
  /\ resp = NoResp
  /\ routeRows = 0
  /\ hist = NoHistory
  /\ head \in HeadInputs
  /\ category = "unset"
  /\ aiCall = NoAiCall
  /\ aiResult = NoAiResult
  /\ fs = FsFull
  /\ dbfile = NoDbFile
  /\ procs = NoProcs

NextClassify == Classify

SpecClassify == InitClassify /\ [][NextClassify]_vars

(* ------------------- answer() over questions and outcomes --------------- *)
QuestionFragments ==
  { Q_Budget, Q_DPR, Q_Space, Q_Why,
    <<"V","A","R","I","A","N","C","E">>, <<"o","v","e","r">>, <<"U","n","d","e","r">>,
    <<"c","o","s","t">>, <<"D","a","i","l","y">>, <<"p","r","o","g","r","e","s","s">>,
    <<"T","O","D","A","Y">>, <<"b","u","d">>, <<"g","e","t">> }

RECURSIVE Questions(_)
\* the questions made of at most n fragments
Questions(n) ==
  IF n = 0 THEN {<<>>}
  ELSE LET shorter == Questions(n - 1)
       IN shorter \cup { a \o f : a \in shorter, f \in QuestionFragments }

\* contexts as ai_chat builds them: stripped, the project line first
AiContexts ==
  { <<"Project: {name}">>,
    <<"Project: {name}", "\n", "\n", "Budget heads:", "\n", "- {cost_head}: {budget_amount}">> }

\* settings.openai_api_key: absent, empty, blank, set
AiKeys == {None, Some(<<>>), Some(<<" ">>), Some(<<"s","k">>)}

AiCalls ==
  [question : Questions(MaxWords), context : AiContexts, key : AiKeys, online : OnlineOutcomes]

\* one call of answer()
Ask ==
  /\ phase = "ai"
  /\ aiResult = NoAiResult
  /\ aiResult' = answer(aiCall.question, aiCall.context, aiCall.key, aiCall.online)
  /\ UNCHANGED <<VERCEL, phase, DB_AVAILABLE, db, resp, hist, routeRows, head, category,
                 aiCall, fs, dbfile, procs>>

InitAi ==
  /\ VERCEL = FALSE
  /\ phase = "ai"
  /\ DB_AVAILABLE = TRUE
  /\ schema = FALSE
  /\ projects = {} /\ daily_logs = {} /\ daily_activities = {}
  /\ cost_entries = {} /\ budget_items = {} /\ kpi_rows = {}
  /\ seq = [t \in TableNames |-> 0]
  /\ resp = NoResp
  /\ routeRows = 0
  /\ hist = NoHistory
  /\ head = <<>>
  /\ category = "unset"
  /\ aiCall \in AiCalls
  /\ aiResult = NoAiResult
  /\ fs = FsFull
  /\ dbfile = NoDbFile
  /\ procs = NoProcs

NextAi == Ask

SpecAi == InitAi /\ [][NextAi]_vars

(* --------------- the portfolio overview over any projects table --------- *)
\* the values the status column of a project may hold
Statuses == {"Planning", "Execution", "Monitoring", "Delayed", "Completed"}

ContractValues == {None, Some(2500)}

\* a row of an existing projects table
PortfolioRow(id, st, v) ==
  [SeedProject(id) EXCEPT !.status = st, !.total_contract_value = v,
                          !.client = IF st = "Delayed" THEN "MMRDA" ELSE @]

\* the projects tables with ids up to MaxProjectId
PortfolioTables ==
  UNION { { { PortfolioRow(i, f[i].st, f[i].v) : i \in S }
            : f \in [S -> [st : Statuses, v : ContractValues]] }
          : S \in SUBSET (1..MaxProjectId) }

\* a process starts on a database file that holds any such table
InitPortfolio ==
  /\ VERCEL \in BOOLEAN
  /\ phase = "boot"
  /\ DB_AVAILABLE = TRUE
  /\ schema = TRUE
  /\ projects \in PortfolioTables
  /\ daily_logs = {} /\ daily_activities = {}
  /\ cost_entries = {} /\ budget_items = {} /\ kpi_rows = {}
  /\ seq = [t \in TableNames |->
              IF t = "projects" /\ projects # {}
              THEN CHOOSE m \in ProjectIds : \A i \in ProjectIds : i <= m
              ELSE 0]
  /\ resp = NoResp
  /\ routeRows = 0
  /\ hist = NoHistory
  /\ head = <<>>
  /\ category = "unset"
  /\ aiCall = NoAiCall
  /\ aiResult = NoAiResult
  /\ fs = FsFull
  /\ dbfile = NoDbFile
  /\ procs = NoProcs

NextPortfolio ==
  \/ ImportMain
  \/ _startup
  \/ MountedUnderApi
  \/ create_project
  \/ get_portfolio_overview
  \/ Respond

SpecPortfolio == InitPortfolio /\ [][NextPortfolio]_vars

(* ------------------- cost listing and labour manpower ------------------ *)
\* the from_date and to_date of a request: neither, either, both
CostWindows ==
  { [from |-> None, to |-> None],
    [from |-> Some(20260122), to |-> None],
    [from |-> None, to |-> Some(20260121)],
    [from |-> Some(20260122), to |-> Some(20260210)] }

RECURSIVE OrderByIdOnly(_)
\* variant: ORDER BY id DESC
OrderByIdOnly(rows) ==
  IF rows = {} THEN <<>>
  ELSE LET top == CHOOSE r \in rows : \A o \in rows : o.id <= r.id
       IN <<top>> \o OrderByIdOnly(rows \ {top})

RECURSIVE OrderByEntryDateDescIdDesc(_)
\* ORDER BY entry_date DESC, id DESC
OrderByEntryDateDescIdDesc(rows) ==
  IF rows = {} THEN <<>>
  ELSE LET top == CHOOSE r \in rows :
                    \A o \in rows : \/ o.entry_date < r.entry_date
                                    \/ o.entry_date = r.entry_date /\ o.id <= r.id
       IN <<top>> \o OrderByEntryDateDescIdDesc(rows \ {top})

\* GET /projects/{project_id}/costs: no availability test, no try, no lookup of the project
list_costs_handler ==
  \E pid \in ProjectArgs, w \in CostWindows, fail \in BOOLEAN :
    /\ Serving /\ Handled /\ Frame
    /\ UNCHANGED <<projects, daily_logs, daily_activities, cost_entries,
                   budget_items, kpi_rows, seq, routeRows>>
    /\ resp' = WithPayload(
                 IF QueryFails(fail)
                 THEN Response("list_costs", pid, 500, None, fail)
                 ELSE Response("list_costs", pid, 200,
                               Some(OrderByEntryDateDescIdDesc(WindowedCosts(pid, w))), fail),
                 w)

\* record_date and total_actual of a request: a seeded date and a free one
LabourPayloads ==
  { [record_date |-> 20260131, total_actual |-> 99],
    [record_date |-> 20260301, total_actual |-> 70] }

\* variant: labour_manpower declared without its UNIQUE clause
LabourConflictNone(rows, pid, d) == {}

\* the rows the UNIQUE(project_id, record_date) index of labour_manpower matches
LabourConflict(rows, pid, d) ==
  { k \in rows : k.table = "labour_manpower" /\ k.project_id = pid /\ k.record_date = Some(d) }

\* POST /labour-manpower: a plain INSERT, no ON CONFLICT clause, no try
create_labour_manpower ==
  \E pid \in ProjectArgs, payload \in LabourPayloads, fail \in BOOLEAN :
    /\ Serving /\ Handled /\ Frame
    /\ UNCHANGED <<projects, daily_logs, daily_activities, cost_entries, budget_items>>
    /\ LET found == LabourConflict(kpi_rows, pid, payload.record_date)
       IN IF QueryFails(fail) \/ FKViolation(ProjectIds, pid) \/ found # {}
          THEN /\ resp' = WithPrior(WithPayload(
                            Response("create_labour_manpower", pid, 500, None, fail),
                            payload), found)
               /\ UNCHANGED <<kpi_rows, seq, routeRows>>
          ELSE /\ UnderCap
               /\ routeRows' = routeRows + 1
               /\ LET row == [table |-> "labour_manpower",
                              id |-> seq["labour_manpower"] + 1,
                              project_id |-> pid,
                              record_date |-> Some(payload.record_date),
                              total_actual |-> Some(payload.total_actual)]
                  IN /\ kpi_rows' = kpi_rows \cup {row}
                     /\ seq' = [seq EXCEPT !["labour_manpower"] = row.id]
                     /\ resp' = WithPrior(WithPayload(
                                  Response("create_labour_manpower", pid, 200, Some(row),
                                           fail), payload), found)

\* startup, projects and cost entries, the cost listing and the labour records
NextRecords ==
  \/ ImportMain
  \/ _startup
  \/ MountedUnderApi
  \/ Restart
  \/ create_project
  \/ delete_project
  \/ create_cost
  \/ list_costs_handler
  \/ create_labour_manpower
  \/ Respond

SpecRecords == Init /\ [][NextRecords]_vars

(* --------------------- the probe on any filesystem ---------------------- *)
\* the probe function starts on any filesystem; a file that is there holds any
\* projects table
InitProbe ==
  /\ VERCEL \in BOOLEAN
  /\ phase = "boot"
  /\ DB_AVAILABLE = TRUE
  /\ fs \in FsStates
  /\ schema = fs.file
  /\ projects \in (IF fs.file THEN PortfolioTables ELSE {{}})
  /\ daily_logs = {} /\ daily_activities = {}
  /\ cost_entries = {} /\ budget_items = {} /\ kpi_rows = {}
  /\ seq = [t \in TableNames |->
              IF t = "projects" /\ projects # {}
              THEN CHOOSE m \in ProjectIds : \A i \in ProjectIds : i <= m
              ELSE 0]
  /\ resp = NoResp
  /\ routeRows = 0
  /\ hist = NoHistory
  /\ head = <<>>
  /\ category = "unset"
  /\ aiCall = NoAiCall
  /\ aiResult = NoAiResult
  /\ dbfile = NoDbFile
  /\ procs = NoProcs

NextProbe ==
  \/ handler
  \/ Respond

SpecProbe == InitProbe /\ [][NextProbe]_vars

(* ------------------------- every operation at once --------------------- *)
NextApp ==
  \/ ImportMain
  \/ _startup
  \/ MountedUnderApi
  \/ Restart
  \/ list_projects
  \/ create_project
  \/ delete_project
  \/ create_daily_log
  \/ create_daily_activity
  \/ create_cost
  \/ list_costs_handler
  \/ upsert_budget
  \/ insert_budget_item
  \/ create_project_milestone
  \/ create_labour_manpower
  \/ job_costing
  \/ summary
  \/ get_comprehensive_dashboard
  \/ ai_chat
  \/ get_portfolio_overview
  \/ handler
  \/ Respond

SpecApp == Init /\ [][NextApp]_vars

(* ------------------- init_db on older and current files ----------------- *)
\* a row of an older file: every column of the table holds a value
OldRow(cols) == [c \in cols |-> IF c = "id" THEN Some(1) ELSE Some("old")]

\* the tables a file may hold: none, or the base columns and any of the migrated ones,
\* with no row or one
OlderTables(t) ==
  { [columns |-> {}, rows |-> {}] }
  \cup UNION { { [columns |-> BaseColumns(t) \cup S, rows |-> {}],
                 [columns |-> BaseColumns(t) \cup S,
                  rows |-> {OldRow(BaseColumns(t) \cup S)}] }
               : S \in SUBSET { MigratedColumns(t)[i] : i \in 1..Len(MigratedColumns(t)) } }

\* the files of older and current versions
OlderFiles ==
  { [columns |-> [t \in MigratedTables |-> IF t = "projects" THEN p.columns ELSE c.columns],
     rows |-> [t \in MigratedTables |-> IF t = "projects" THEN p.rows ELSE c.rows]]
    : p \in OlderTables("projects"), c \in OlderTables("cost_entries") }

\* one more start of the process: init_db() on the file as it is
RunInitDb ==
  /\ phase = "migrate"
  /\ procs.runs < MaxRuns
  /\ dbfile' = init_db(dbfile)
  /\ procs' = [runs |-> procs.runs + 1]
  /\ UNCHANGED <<VERCEL, phase, DB_AVAILABLE, db, resp, hist, routeRows, head, category,
                 aiCall, aiResult, fs>>

InitMigrate ==
  /\ VERCEL = FALSE
  /\ phase = "migrate"
  /\ DB_AVAILABLE = TRUE
  /\ schema = FALSE
  /\ projects = {} /\ daily_logs = {} /\ daily_activities = {}
  /\ cost_entries = {} /\ budget_items = {} /\ kpi_rows = {}
  /\ seq = [t \in TableNames |-> 0]
  /\ resp = NoResp
  /\ routeRows = 0
  /\ hist = NoHistory
  /\ head = <<>>
  /\ category = "unset"
  /\ aiCall = NoAiCall
  /\ aiResult = NoAiResult
  /\ fs = FsFull
  /\ dbfile \in OlderFiles
  /\ procs = [runs |-> 0]

NextMigrate == RunInitDb

SpecMigrate == InitMigrate /\ [][NextMigrate]_vars

(* ------------- startup initialization, statement by statement ----------- *)
\* two server processes on one database file
Procs == {1, 2}

\* a process before its startup initialization: no connection, nothing pending
IdleProc ==
  [pc |-> "idle", conn |-> FALSE, pending |-> {}, count |-> 0, atOpen |-> NoDbFile,
   flag |-> TRUE]

\* another connection is inside a write transaction
Locked(p) == \E q \in Procs \ {p} : procs[q].pending # {}

\* the positions between and after the scopes of init_db() and seed_if_empty()
OutsideScope == {"idle", "between", "done", "failed"}

\* the row of INSERT INTO projects in seed_if_empty: the named columns, the rest default
SeedProjectRow(id, cols) ==
  [c \in cols |->
     CASE c = "id" -> Some(id)
       [] c = "name" -> Some(SampleName)
       [] c \in {"client", "location", "contract_no", "start_date", "end_date",
                 "total_contract_value", "profit_margin_target"} -> Some("seed")
       [] c = "created_at" -> Some("now")
       [] OTHER -> ColumnDefault(c)]

\* what the steps of the startup run leave alone
StartupFrame ==
  UNCHANGED <<VERCEL, phase, DB_AVAILABLE, db, resp, hist, routeRows, head, category,
              aiCall, aiResult>>

\* db_cursor: conn = get_connection(), for the scope of init_db and of seed_if_empty
get_connection(p) ==
  \E raises \in BOOLEAN :
    /\ phase = "startup"
    /\ procs[p].pc \in {"idle", "between"}
    /\ fs' \in ConnectFs(fs, raises)
    /\ procs' = [procs EXCEPT ![p] =
                   IF raises
                   THEN [@ EXCEPT !.pc = "failed", !.flag = FALSE, !.atOpen = dbfile]
                   ELSE [@ EXCEPT !.pc = IF @ = "idle" THEN "script" ELSE "count",
                                  !.conn = TRUE, !.atOpen = dbfile]]
    /\ UNCHANGED dbfile
    /\ StartupFrame

\* cur.executescript: every statement of the script takes effect as it runs
ExecuteScript(p) ==
  \E raises \in BOOLEAN :
    /\ phase = "startup"
    /\ procs[p].pc = "script"
    /\ ~raises => ~Locked(p)
    /\ IF raises
       THEN /\ dbfile' \in {dbfile} \cup
                 (IF Locked(p) THEN {}
                  ELSE {[dbfile EXCEPT !.columns["projects"] =
                                         executescript(dbfile).columns["projects"]]})
            /\ procs' = [procs EXCEPT ![p].pc = "raised"]
       ELSE /\ dbfile' = executescript(dbfile)
            /\ procs' = [procs EXCEPT ![p].pc = "migrate_cost"]
    /\ UNCHANGED fs
    /\ StartupFrame

\* _ensure_columns for one table: each ALTER TABLE runs outside a transaction; the
\* call returns, or raises after the first n entries of its dictionary
EnsureColumns(p) ==
  \E n \in 0..7 :
    LET t == IF procs[p].pc = "migrate_cost" THEN "cost_entries" ELSE "projects"
        g == EnsureColumnsUpTo(dbfile, t, dbfile.columns[t], n)
    IN /\ phase = "startup"
       /\ procs[p].pc \in {"migrate_cost", "migrate_projects"}
       /\ n <= Len(MigratedColumns(t))
       /\ Locked(p) => g = dbfile
       /\ dbfile' = g
       /\ procs' = [procs EXCEPT ![p].pc =
                      IF n < Len(MigratedColumns(t)) THEN "raised"
                      ELSE IF t = "cost_entries" THEN "migrate_projects"
                      ELSE "commit_init"]
       /\ UNCHANGED fs
       /\ StartupFrame

\* SELECT COUNT(*) FROM projects, then `if count > 0: return`
SelectCount(p) ==
  \E raises \in BOOLEAN :
    /\ phase = "startup"
    /\ procs[p].pc = "count"
    /\ procs' = [procs EXCEPT ![p] =
                   IF raises THEN [@ EXCEPT !.pc = "raised"]
                   ELSE LET c == Cardinality(dbfile.rows["projects"])
                        IN [@ EXCEPT !.count = c,
                                     !.pc = IF c > 0 THEN "commit_seed" ELSE "insert"]]
    /\ UNCHANGED <<fs, dbfile>>
    /\ StartupFrame

\* the INSERTs of seed_if_empty: the first opens the transaction of the connection
InsertSeed(p) ==
  \E raises \in BOOLEAN :
    /\ phase = "startup"
    /\ procs[p].pc = "insert"
    /\ ~raises => ~Locked(p)
    /\ procs' = [procs EXCEPT ![p] =
                   IF raises THEN [@ EXCEPT !.pc = "raised"]
                   ELSE [@ EXCEPT !.pc = "commit_seed",
                                  !.pending = {SeedProjectRow(
                                                 Cardinality(dbfile.rows["projects"]) + 1,
                                                 dbfile.columns["projects"])}]]
    /\ UNCHANGED <<fs, dbfile>>
    /\ StartupFrame

\* the end of a scope whose body returned: conn.commit(), then conn.close()
Commit(p) ==
  \E raises \in BOOLEAN :
    /\ phase = "startup"
    /\ procs[p].pc \in {"commit_init", "commit_seed"}
    /\ IF raises
       THEN /\ procs' = [procs EXCEPT ![p].pc = "raised"]
            /\ UNCHANGED dbfile
       ELSE /\ dbfile' = [dbfile EXCEPT !.rows["projects"] = @ \cup procs[p].pending]
            /\ procs' = [procs EXCEPT ![p] =
                           [@ EXCEPT !.conn = FALSE, !.pending = {},
                                     !.pc = IF @ = "commit_init" THEN "between" ELSE "done",
                                     !.flag = TRUE]]
    /\ UNCHANGED fs
    /\ StartupFrame

\* the end of a scope whose body raised: conn.close() drops the open transaction, and
\* the except of the startup run clears the flag
CloseRaised(p) ==
  /\ phase = "startup"
  /\ procs[p].pc = "raised"
  /\ procs' = [procs EXCEPT ![p] =
                 [@ EXCEPT !.conn = FALSE, !.pending = {}, !.pc = "failed",
                           !.flag = FALSE]]
  /\ UNCHANGED <<fs, dbfile>>
  /\ StartupFrame

\* the processes start on one file that holds no table yet
InitStartup ==
  /\ VERCEL = FALSE
  /\ phase = "startup"
  /\ DB_AVAILABLE = TRUE
  /\ schema = FALSE
  /\ projects = {} /\ daily_logs = {} /\ daily_activities = {}
  /\ cost_entries = {} /\ budget_items = {} /\ kpi_rows = {}
  /\ seq = [t \in TableNames |-> 0]
  /\ resp = NoResp
  /\ routeRows = 0
  /\ hist = NoHistory
  /\ head = <<>>
  /\ category = "unset"
  /\ aiCall = NoAiCall
  /\ aiResult = NoAiResult
  /\ fs \in FsStates
  /\ dbfile = NoDbFile
  /\ procs = [p \in Procs |-> IdleProc]

NextStartup ==
  \E p \in Procs :
    \/ get_connection(p)
    \/ ExecuteScript(p)
    \/ EnsureColumns(p)
    \/ SelectCount(p)
    \/ InsertSeed(p)
    \/ Commit(p)
    \/ CloseRaised(p)

SpecStartup == InitStartup /\ [][NextStartup]_vars

(* ------------------------------- properties ---------------------------- *)
\* a step in which the handler of route op takes a request
HandlerStep(op) == resp = NoResp /\ resp'.op = op

\* C1: seeding idempotence.  Starting from the empty database, after N >= 1
\* completed runs of init_db followed by seed_if_empty with no other operation
\* in between, the projects table holds exactly one project, the sample project,
\* and every seeded child table holds the rows it held after the first run.
C1_SeedingIdempotent ==
  (hist.pure /\ hist.runs >= 1) =>
    /\ Cardinality(projects) = 1
    /\ \A p \in projects : p.name = SampleName /\ p.client = "Indian Railways / PWD"
    /\ projects = hist.first.projects
    /\ daily_logs = hist.first.daily_logs
    /\ daily_activities = hist.first.daily_activities
    /\ cost_entries = hist.first.cost_entries
    /\ budget_items = hist.first.budget_items
    /\ kpi_rows = hist.first.kpi_rows
    /\ Cardinality(budget_items) = Len(SeedBudgets)
    /\ Cardinality(cost_entries) = Len(SeedCosts)

\* initialization has run MaxRuns times in a row on the database it seeded
C1_Witness == hist.pure /\ hist.runs = MaxRuns /\ projects # {}

\* at most one budget item per (project_id, cost_head)
BudgetPairsUnique ==
  \A a, b \in budget_items :
    (a.project_id = b.project_id /\ a.cost_head = b.cost_head) => a = b

\* a plain INSERT of a pair the table already holds raises and writes nothing
DirectDuplicateFails ==
  ( /\ HandlerStep("insert_budget_item")
    /\ \E b \in budget_items : /\ b.project_id = resp'.arg
                               /\ b.cost_head = resp'.payload[1].cost_head )
  => (resp'.status = 500 /\ resp'.body = None /\ budget_items' = budget_items)

\* C2: in every state reached by startup, budget upsert, project create and
\* project delete (and every other operation) there is at most one budget item
\* per (project_id, cost_head) pair, and an insert of a second row for an
\* existing pair that bypasses the upsert fails with a constraint violation.
C2_BudgetUniqueness == [](BudgetPairsUnique) /\ [][DirectDuplicateFails]_vars

\* a plain INSERT was refused although the project exists and the database
\* works: the pair was already in the table
C2_Witness ==
  /\ resp.op = "insert_budget_item" /\ resp.status = 500
  /\ ~resp.dbErr /\ resp.arg \in ProjectIds
  /\ \E b \in budget_items : /\ b.project_id = resp.arg
                             /\ b.cost_head = resp.payload[1].cost_head
                             /\ b.budget_amount # resp.payload[1].budget_amount

\* the budget rows other than those of pair (pid, h)
OtherPairs(rows, pid, h) == { b \in rows : ~(b.project_id = pid /\ b.cost_head = h) }

UpsertLastWriteWins ==
  HandlerStep("upsert_budget") =>
    LET pid == resp'.arg
        pl == resp'.payload[1]
        rows == { b \in budget_items' : b.project_id = pid /\ b.cost_head = pl.cost_head }
    IN /\ (pid \in ProjectIds /\ ~resp'.dbErr) => resp'.status = 200
       /\ resp'.status = 200 =>
            /\ Cardinality(rows) = 1
            /\ \A b \in rows : /\ b.budget_amount = pl.budget_amount
                               /\ b.notes = pl.notes
                               /\ resp'.body = Some(b)
            /\ OtherPairs(budget_items', pid, pl.cost_head)
                 = OtherPairs(budget_items, pid, pl.cost_head)

\* C3: budget upsert is last-write-wins.  For an existing project p and a cost
\* head h, an upsert (p, h, a2, n2) -- whatever wrote the pair before, an earlier
\* upsert (p, h, a1, n1) included -- leaves exactly one budget row for (p, h),
\* with budget_amount = a2 and notes = n2, and returns that row.
C3_UpsertLastWriteWins == [][UpsertLastWriteWins]_vars

\* the second of two upserts of one pair: no create route has added a row, so the
\* row it overwrote (amount 100, no notes) was left by the upsert of that payload
C3_Witness ==
  /\ resp.op = "upsert_budget" /\ resp.status = 200
  /\ routeRows = 0
  /\ resp.payload[1].budget_amount = 150 /\ resp.payload[1].notes = Some("revised")
  /\ \E old \in resp.prior[1] : old.budget_amount = 100 /\ old.notes = None

\* the rows of a child table that other projects own
NotOwnedBy(rows, pid) == { r \in rows : r.project_id # pid }

\* the activities of the logs of other projects
ActivitiesNotOwnedBy(acts, logs, pid) ==
  { a \in acts : ~\E l \in logs : l.id = a.daily_log_id /\ l.project_id = pid }

CascadeDelete ==
  (HandlerStep("delete_project") /\ resp'.status = 200) =>
    LET pid == resp'.arg
    IN \* none of the project's rows remain
       /\ pid \notin { p.id : p \in projects' }
       /\ ~\E l \in daily_logs' : l.project_id = pid
       /\ ~\E c \in cost_entries' : c.project_id = pid
       /\ ~\E b \in budget_items' : b.project_id = pid
       /\ ~\E a \in daily_activities' :
             \E l \in daily_logs : l.project_id = pid /\ a.daily_log_id = l.id
       \* the list operations for that project return empty collections
       /\ list_daily_logs(daily_logs', pid) = {}
       /\ list_costs(cost_entries', pid) = {}
       /\ list_budgets(budget_items', pid) = {}
       /\ \A l \in list_daily_logs(daily_logs, pid) :
            list_daily_activities(daily_activities', l.id) = {}
       \* rows owned by other projects are unchanged
       /\ { p \in projects' : p.id # pid } = { p \in projects : p.id # pid }
       /\ NotOwnedBy(daily_logs', pid) = NotOwnedBy(daily_logs, pid)
       /\ NotOwnedBy(cost_entries', pid) = NotOwnedBy(cost_entries, pid)
       /\ NotOwnedBy(budget_items', pid) = NotOwnedBy(budget_items, pid)
       /\ NotOwnedBy(kpi_rows', pid) = NotOwnedBy(kpi_rows, pid)
       /\ ActivitiesNotOwnedBy(daily_activities', daily_logs, pid)
            = ActivitiesNotOwnedBy(daily_activities, daily_logs, pid)

\* C4: cascade delete.  After DELETE /projects/{id} succeeds for a project that
\* owns daily logs (with their daily activities), cost entries and budget items,
\* none of those rows remain, the list operations for that project id (daily
\* logs, costs, budgets, activities of its logs) return empty collections, and
\* the rows owned by other projects are unchanged.
C4_CascadeDelete == [][CascadeDelete]_vars

\* a project owning rows of all four kinds was deleted while another project
\* with a daily log or a cost entry or a budget item of its own exists
C4_Witness ==
  /\ resp.op = "delete_project" /\ resp.status = 200
  /\ resp.prior[1].daily_logs > 0 /\ resp.prior[1].daily_activities > 0
  /\ resp.prior[1].cost_entries > 0 /\ resp.prior[1].budget_items > 0
  /\ \E p \in projects :
       \E r \in daily_logs \cup cost_entries \cup budget_items : r.project_id = p.id

DeleteNotFound ==
  (HandlerStep("delete_project") /\ ~resp'.dbErr /\ resp'.arg \notin ProjectIds) =>
    /\ resp'.status = 404
    /\ UNCHANGED tables

\* C5: with the database reachable, DELETE /projects/{id} for an id that does
\* not exist signals Not-Found (404) and leaves every table unchanged.
C5_DeleteNotFound == [][DeleteNotFound]_vars

\* the delete of a missing id was answered 404 on a database that holds projects
C5_Witness ==
  /\ resp.op = "delete_project" /\ resp.status = 404
  /\ ~resp.dbErr /\ resp.arg \notin ProjectIds
  /\ projects # {} /\ budget_items # {}

\* each child row references a project that exists, each activity a log that exists
ReferentialIntegrity ==
  /\ \A r \in daily_logs \cup cost_entries \cup budget_items \cup kpi_rows :
       r.project_id \in ProjectIds
  /\ \A a \in daily_activities : a.daily_log_id \in LogIds

CreatesByProject == {"create_daily_log", "create_cost", "upsert_budget",
                     "insert_budget_item", "create_project_milestone"}

CreateRejected ==
  ( /\ resp = NoResp
    /\ \/ resp'.op \in CreatesByProject /\ resp'.arg \notin ProjectIds
       \/ resp'.op = "create_daily_activity" /\ resp'.arg \notin LogIds )
  => /\ resp'.status = 500 /\ resp'.body = None
     /\ UNCHANGED tables

\* C6: referential integrity.  In every reachable state each child row (daily
\* log, cost entry, budget item, KPI entity row) references a project that exists
\* and each daily activity references a daily log that exists; a create whose
\* project_id or daily_log_id does not exist is rejected and adds no row.
C6_ReferentialIntegrity == [](ReferentialIntegrity) /\ [][CreateRejected]_vars

\* a create naming a missing project was refused by a working database that
\* holds projects and child rows
C6_Witness ==
  /\ resp.op = "create_cost" /\ resp.status = 500
  /\ ~resp.dbErr /\ resp.arg \notin ProjectIds
  /\ projects # {} /\ cost_entries # {} /\ daily_activities # {}

\* C7: fallback masking on list-projects.  Whenever the availability flag is
\* false, or the persistence query of GET /projects raises, the response is a
\* success (never an error) containing exactly the one mock project: id 1, name
\* "Railway ROB + Bridge Works (Pile Foundation & Sub-Structure)",
\* total_contract_value 100000000.
C7_ListProjectsMasked ==
  (resp.op = "list_projects" /\ (~resp.avail \/ resp.dbErr)) =>
    /\ resp.status = 200
    /\ Len(resp.body) = 1
    /\ resp.body[1].id = 1
    /\ resp.body[1].name = "Railway ROB + Bridge Works (Pile Foundation & Sub-Structure)"
    /\ resp.body[1].total_contract_value = Some(100000000)

\* the query raised with the flag true, on a database whose only projects are
\* not the mock one: the masked answer differs from the live rows
C7_Witness ==
  /\ resp.op = "list_projects" /\ resp.avail /\ resp.dbErr
  /\ projects # {} /\ 1 \notin ProjectIds
  /\ resp.status = 200

\* C8 (as the specification states it): whenever the availability flag is false,
\* or persistence access inside GET /projects/{id}/job-costing fails, the request
\* does not fail: it answers 200 with the fixed 4-category fallback payload
\* (Labour, Materials, Equipment, Subcontractors).
C8_JobCostingMasked ==
  (resp.op = "job_costing" /\ (~resp.avail \/ resp.dbErr)) =>
    /\ resp.status = 200
    /\ resp.body # None
    /\ resp.body[1].categories = <<"Labour", "Materials", "Equipment", "Subcontractors">>

\* the flag was false and the request failed: the mock JobCostingSummary did
\* not validate
C8_Failure ==
  resp.op = "job_costing" /\ ~resp.avail /\ resp.status = 500 /\ resp.body = None

\* C9 (as the specification states it): GET /projects/{id}/job-costing with the
\* availability flag true and working persistence signals Not-Found (404) when
\* the project id does not exist.
C9_JobCostingNotFound ==
  (resp.op = "job_costing" /\ resp.avail /\ ~resp.dbErr /\ resp.arg \notin ProjectIds)
    => resp.status = 404

\* flag true, database working, project missing, and the answer is a 500
C9_Failure ==
  /\ resp.op = "job_costing" /\ resp.avail /\ ~resp.dbErr
  /\ resp.arg \notin ProjectIds /\ projects # {}
  /\ resp.status = 500

\* the upper-case form of a lower-case letter
UpperOf(c) ==
  CASE c = "a" -> "A" [] c = "b" -> "B" [] c = "c" -> "C" [] c = "d" -> "D"
    [] c = "e" -> "E" [] c = "f" -> "F" [] c = "g" -> "G" [] c = "h" -> "H"
    [] c = "i" -> "I" [] c = "j" -> "J" [] c = "k" -> "K" [] c = "l" -> "L"
    [] c = "m" -> "M" [] c = "n" -> "N" [] c = "o" -> "O" [] c = "p" -> "P"
    [] c = "q" -> "Q" [] c = "r" -> "R" [] c = "s" -> "S" [] c = "t" -> "T"
    [] c = "u" -> "U" [] c = "v" -> "V" [] c = "w" -> "W" [] c = "x" -> "X"
    [] c = "y" -> "Y" [] c = "z" -> "Z"
    [] OTHER -> c

\* head contains word (given in lower case), letter case ignored
Contains(h, word) ==
  \E i \in 1..(Len(h) - Len(word) + 1) :
    \A j \in 1..Len(word) : h[i + j - 1] \in {word[j], UpperOf(word[j])}

\* the category the priority order of the specification assigns
ByPriority(h) ==
  IF Contains(h, <<"l","a","b","o","u","r">>) \/ Contains(h, <<"l","a","b","o","r">>)
    THEN "Labour"
  ELSE IF Contains(h, <<"m","a","t","e","r","i","a","l">>)
    THEN "Materials"
  ELSE IF \/ Contains(h, <<"m","a","c","h","i","n","e","r","y">>)
          \/ Contains(h, <<"e","q","u","i","p","m","e","n","t">>)
    THEN "Equipment"
  ELSE IF Contains(h, <<"s","u","b","c","o","n","t","r","a","c","t">>)
    THEN "Subcontractors"
  ELSE "Other"

\* C10: job-costing classification maps every cost head to exactly one of the
\* five categories by case-insensitive substring tests in priority order:
\* "labour" or "labor" -> Labour; else "material" -> Materials; else "machinery"
\* or "equipment" -> Equipment; else "subcontract" -> Subcontractors; else Other.
\* In particular a head containing both "labour" and "material" is Labour.
C10_ClassificationPriority ==
  category # "unset" =>
    /\ category \in {"Labour", "Materials", "Equipment", "Subcontractors", "Other"}
    /\ category = ByPriority(head)
    /\ ( /\ Contains(head, <<"l","a","b","o","u","r">>)
         /\ Contains(head, <<"m","a","t","e","r","i","a","l">>) ) => category = "Labour"

\* a head with "material" before "labour" in it, in mixed case, was classified
C10_Witness ==
  /\ category = "Labour"
  /\ head = F_Material \o F_Labour

\* C11 (as the specification states it): the classification function gives
\* "Labour - Mason Wages" -> Labour, "Ready Mix Concrete" -> Materials,
\* "Crane Rental" -> Equipment, "ABC Subcontractors Pvt Ltd" -> Subcontractors,
\* "Site Office Rent" -> Other.
C11_ExamplesAsStated ==
  category # "unset" =>
    /\ head = F_MasonWages => category = "Labour"
    /\ head = F_ReadyMix => category = "Materials"
    /\ head = F_CraneRental => category = "Equipment"
    /\ head = F_ABCSub => category = "Subcontractors"
    /\ head = F_SiteOffice => category = "Other"

\* C11 (amended): the classification function gives "Labour - Mason Wages" ->
\* Labour, "Ready Mix Concrete" -> Other, "Crane Rental" -> Other (neither
\* contains a category word), "ABC Subcontractors Pvt Ltd" -> Subcontractors,
\* "Site Office Rent" -> Other.
C11_Examples ==
  category # "unset" =>
    /\ head = F_MasonWages => category = "Labour"
    /\ head = F_ReadyMix => category = "Other"
    /\ head = F_CraneRental => category = "Other"
    /\ head = F_ABCSub => category = "Subcontractors"
    /\ head = F_SiteOffice => category = "Other"

\* "Ready Mix Concrete" was classified, as Other
C11_Witness == head = F_ReadyMix /\ category = "Other"

\* the category of a cost head by the priority order
CategoryOfHead(h) == ByPriority(Chars(h))

\* what C12 says of one category entry of the response
CategoryAsSpecified(e, budgets, costs) ==
  LET bs == { b \in budgets : CategoryOfHead(b.cost_head) = e.category }
      cs == { c \in costs : CategoryOfHead(c.cost_head) = e.category }
      planned == SumField(bs, "budget_amount")
      actual == SumField(cs, "amount")
      qty == SumQuantity(cs)
      units == { c.uom[1] : c \in { x \in cs : x.uom # None } }
  IN /\ e.planned_cost = planned
     /\ e.actual_cost = actual
     \* quantities are in tenths of the unit
     /\ IF qty > 0
        THEN e.unit_cost = Some([num |-> actual, den |-> qty, times |-> 10])
        ELSE e.unit_cost = None
     /\ IF Cardinality(units) = 1 THEN e.uom \in { Some(u) : u \in units } ELSE e.uom = None
     /\ IF planned > 0
        THEN e.percent_over_under_budget
               = Some([num |-> actual - planned, den |-> planned, times |-> 100])
        ELSE e.percent_over_under_budget = None

\* C12 (as the specification states it): for an existing project with working
\* persistence the job-costing response reports per category planned = sum of
\* the budgets of the heads in the category, actual = sum of the cost amounts,
\* unit_cost = actual / quantity when the summed quantity > 0 (absent otherwise),
\* uom only when exactly one distinct non-empty unit was used, and
\* percent_over_under_budget = (actual - planned) / planned * 100 when
\* planned > 0 (absent otherwise).
C12_JobCostingArithmetic ==
  (resp.op = "job_costing" /\ resp.avail /\ ~resp.dbErr /\ resp.arg \in ProjectIds) =>
    /\ resp.status = 200
    /\ resp.body # None
    /\ \A i \in 1..Len(resp.body[1].categories) :
         CategoryAsSpecified(resp.body[1].categories[i],
                             list_budgets(budget_items, resp.arg),
                             WindowedCosts(resp.arg, resp.payload[1]))

\* an existing project with budgets and costs, a working database, flag true:
\* the request ended as a 500 without any figures
C12_Failure ==
  /\ resp.op = "job_costing" /\ resp.avail /\ ~resp.dbErr
  /\ resp.arg \in ProjectIds
  /\ list_budgets(budget_items, resp.arg) # {} /\ list_costs(cost_entries, resp.arg) # {}
  /\ resp.status = 500 /\ resp.body = None

\* the sum of column fld over rows, head by head
SumOver(rows, h, fld) == SumField({ r \in rows : r.cost_head = h }, fld)

\* C13 (as the specification states it): for an existing project GET
\* /projects/{id}/summary returns variance_by_head with one entry for every cost
\* head of the windowed cost entries or of the project's budget items, equal to
\* actual minus budget with a missing side taken as 0, so a head with costs but
\* no budget has variance equal to its cost.
C13_SummaryVariance ==
  (resp.op = "summary" /\ ~resp.dbErr /\ resp.arg \in ProjectIds) =>
    /\ resp.status = 200
    /\ resp.body # None
    /\ LET costs == WindowedCosts(resp.arg, resp.payload[1])
           budgets == list_budgets(budget_items, resp.arg)
           v == resp.body[1].variance_by_head
       IN /\ DOMAIN v = { c.cost_head : c \in costs } \cup { b.cost_head : b \in budgets }
          /\ \A h \in DOMAIN v :
               v[h] = SumOver(costs, h, "amount") - SumOver(budgets, h, "budget_amount")

\* an existing project with a cost head that has no budget ("Steel"), a working
\* database, and the summary ended as a 500
C13_Failure ==
  /\ resp.op = "summary" /\ ~resp.dbErr /\ resp.arg \in ProjectIds
  /\ \E c \in list_costs(cost_entries, resp.arg) :
       ~\E b \in list_budgets(budget_items, resp.arg) : b.cost_head = c.cost_head
  /\ resp.status = 500 /\ resp.body = None

\* C14 (as the specification states it): for an existing project the
\* total_budget and budget_by_head of GET /projects/{id}/summary equal the sums
\* over all budget items of the project for every from_date and to_date, while
\* total_cost and cost_by_head cover only the cost entries with
\* from_date <= entry_date <= to_date.
C14_SummaryBudgetsUnfiltered ==
  (resp.op = "summary" /\ ~resp.dbErr /\ resp.arg \in ProjectIds) =>
    /\ resp.status = 200
    /\ resp.body # None
    /\ LET w == resp.payload[1]
           budgets == { b \in budget_items : b.project_id = resp.arg }
           costs == { c \in cost_entries :
                        /\ c.project_id = resp.arg
                        /\ (w.from # None => w.from[1] <= c.entry_date)
                        /\ (w.to # None => c.entry_date <= w.to[1]) }
           body == resp.body[1]
       IN /\ body.total_budget = SumField(budgets, "budget_amount")
          /\ DOMAIN body.budget_by_head = { b.cost_head : b \in budgets }
          /\ \A h \in DOMAIN body.budget_by_head :
               body.budget_by_head[h] = SumOver(budgets, h, "budget_amount")
          /\ body.total_cost = SumField(costs, "amount")
          /\ DOMAIN body.cost_by_head = { c.cost_head : c \in costs }
          /\ \A h \in DOMAIN body.cost_by_head :
               body.cost_by_head[h] = SumOver(costs, h, "amount")

\* an existing project with budgets, a window that excludes some of its cost
\* entries, a working database, and the summary ended as a 500
C14_Failure ==
  /\ resp.op = "summary" /\ ~resp.dbErr /\ resp.arg \in ProjectIds
  /\ list_budgets(budget_items, resp.arg) # {}
  /\ resp.payload[1].from # None
  /\ WindowedCosts(resp.arg, resp.payload[1]) # {}
  /\ WindowedCosts(resp.arg, resp.payload[1]) # list_costs(cost_entries, resp.arg)
  /\ resp.status = 500 /\ resp.body = None

\* the routes that look the project up first
LookupRoutes == {"summary", "get_comprehensive_dashboard", "ai_chat"}

\* C15: when the project id of a dashboard-summary, comprehensive-dashboard or
\* AI-chat request does not exist (and persistence works), the response is 404,
\* the handler executed only the lookup statement, and answer() was not called.
C15_NotFoundExplicit ==
  (resp.op \in LookupRoutes /\ ~resp.dbErr /\ resp.arg \notin ProjectIds) =>
    /\ resp.status = 404
    /\ resp.body = None
    /\ resp.queries = 1
    /\ ~resp.aiCalled

\* an AI-chat request for an unknown project, with a key configured and the
\* endpoint answering, ended as a 404 after one statement and no call
C15_Witness ==
  /\ resp.op = "ai_chat" /\ ~resp.dbErr /\ resp.arg \notin ProjectIds
  /\ ProjectIds # {}
  /\ resp.payload[1].key # None /\ resp.payload[1].online.kind = "ok"
  /\ resp.status = 404 /\ resp.queries = 1 /\ ~resp.aiCalled

\* C16 (as the specification states it): for an existing project GET
\* /projects/{id}/comprehensive-dashboard returns a successful response with the
\* project's id, name and client and every KPI sub-report absent.
C16_ComprehensiveDashboard ==
  (resp.op = "get_comprehensive_dashboard" /\ ~resp.dbErr /\ resp.arg \in ProjectIds) =>
    /\ resp.status = 200
    /\ resp.body # None
    /\ \E p \in projects :
         /\ p.id = resp.arg
         /\ resp.body[1].project_id = p.id
         /\ resp.body[1].project_name = p.name
         /\ resp.body[1].client = p.client
    /\ \A k \in DOMAIN resp.body[1].kpis : resp.body[1].kpis[k] = None

\* the comprehensive dashboard of an existing project, with a working
\* database, ended as a 500
C16_Failure ==
  /\ resp.op = "get_comprehensive_dashboard" /\ ~resp.dbErr /\ resp.arg \in ProjectIds
  /\ resp.status = 500 /\ resp.body = None

RECURSIVE ContractSumUpTo(_)
\* the contract values of the projects with ids 1..n added up, id by id
ContractSumUpTo(n) ==
  IF n = 0 THEN 0
  ELSE ContractSumUpTo(n - 1)
         + (IF \E p \in projects : p.id = n /\ p.total_contract_value # None
            THEN (CHOOSE p \in projects : p.id = n).total_contract_value[1]
            ELSE 0)

\* the figures of the overview are those of the projects table
OverviewFigures ==
  (resp.op = "get_portfolio_overview" /\ ~resp.dbErr) =>
    /\ resp.status = 200
    /\ resp.body # None
    /\ LET o == resp.body[1]
           valued == { p \in projects : p.total_contract_value # None }
       IN /\ o.total_projects = Cardinality(projects)
          /\ o.active_projects =
               Cardinality({ p \in projects :
                               p.status \in {"Planning", "Execution", "Monitoring"} })
          /\ o.delayed_projects = Cardinality({ p \in projects : p.status = "Delayed" })
          /\ o.total_contract_value = ContractSumUpTo(seq["projects"])
          /\ (valued = {} => o.total_contract_value = 0)
          /\ o.total_billed_value.num = o.total_contract_value
          /\ o.total_billed_value.times * 10 = o.total_billed_value.den * 7
          /\ o.active_projects + o.delayed_projects <= o.total_projects

\* a step that adds projects (the seed, POST /projects) adds active ones
NewProjectsActive ==
  \A p \in projects' \ projects : p.status \in {"Planning", "Execution", "Monitoring"}

\* C17: the portfolio overview reports the number of projects, the number whose
\* status is Planning, Execution or Monitoring as active, the number whose status
\* is Delayed as delayed, the sum of the contract values (0 when none) and 70%
\* of that sum as billed, with active + delayed <= total; and every project the
\* seed or POST /projects creates has an active status.
C17_PortfolioOverview == [](OverviewFigures) /\ [][NewProjectsActive]_vars

\* an overview over a table with a delayed, an active and a finished project,
\* one of them without a contract value
C17_Witness ==
  /\ resp.op = "get_portfolio_overview" /\ resp.status = 200
  /\ resp.body[1].delayed_projects >= 1
  /\ resp.body[1].active_projects >= 1
  /\ resp.body[1].total_contract_value > 0
  /\ \E p \in projects : p.total_contract_value = None

\* the call of answer() has returned or raised
Answered == phase = "ai" /\ aiResult # NoAiResult

\* a text with a character that is not white space
NotBlank(t) == \E i \in 1..Len(t) : t[i] \notin {" ", "\n", "\t"}

\* t without the white space around it
Trimmed(t, core) ==
  \E i \in 1..Len(t), j \in 1..Len(t) :
    /\ core = SubSeq(t, i, j)
    /\ t[i] \notin {" ", "\n", "\t"} /\ t[j] \notin {" ", "\n", "\t"}
    /\ \A k \in 1..Len(t) : (k < i \/ k > j) => t[k] \in {" ", "\n", "\t"}

\* C18: answer() returns a result and never raises; the mode is "online" only
\* when a key is configured and the online call succeeded with non-empty
\* trimmed content (the answer is that content), and "offline" with the offline
\* heuristic's text in every other case: no key, network error, non-2xx status,
\* malformed response, empty content.
C18_AiFailuresNotSurfaced ==
  Answered =>
    /\ ~aiResult.raised
    /\ aiResult.mode \in {"online", "offline"}
    /\ aiResult.mode = "online" <=>
         /\ aiCall.key # None /\ NotBlank(aiCall.key[1])
         /\ aiCall.online.kind = "ok"
         /\ NotBlank(aiCall.online.content)
    /\ aiResult.mode = "online" => Trimmed(aiCall.online.content, aiResult.answer)
    /\ aiResult.mode = "offline" =>
         aiResult.answer = offline_answer(aiCall.question, aiCall.context)

\* a key is configured, the request failed on the network, and the caller got
\* the offline answer
C18_Witness ==
  /\ Answered
  /\ aiCall.key = Some(<<"s","k">>) /\ aiCall.online.kind = "network"
  /\ ~aiResult.raised /\ aiResult.mode = "offline"
  /\ aiResult.answer # <<>>

\* the question holds one of the words, letter case ignored
Mentions(question, words) == \E w \in words : Contains(question, w)

\* the positions of a piece of text in an answer
Positions(text, piece) == { i \in 1..Len(text) : text[i] = piece }

\* C19: the offline answer begins with the label "Offline mode (no AI key)."
\* followed by the context block as given; it contains the "Suggested checks"
\* block iff the lower-cased question contains one of budget, variance, over,
\* under, cost, and the "DPR format tip" block iff it contains one of dpr,
\* daily, progress, today; when both appear, Suggested checks comes first.
C19_OfflineHeuristic ==
  (Answered /\ aiResult.mode = "offline") =>
    LET a == aiResult.answer
        opening ==
          <<"Offline mode (no AI key). Here is a structured summary from your data:",
            "\n", "\n">> \o aiCall.context
        suggested == Positions(a, "Suggested checks:")
        tip == Positions(a, "DPR format tip:")
    IN /\ Len(a) >= Len(opening)
       /\ SubSeq(a, 1, Len(opening)) = opening
       /\ suggested # {} <=>
            Mentions(aiCall.question,
                     { <<"b","u","d","g","e","t">>, <<"v","a","r","i","a","n","c","e">>,
                       <<"o","v","e","r">>, <<"u","n","d","e","r">>, <<"c","o","s","t">> })
       /\ tip # {} <=>
            Mentions(aiCall.question,
                     { <<"d","p","r">>, <<"d","a","i","l","y">>,
                       <<"p","r","o","g","r","e","s","s">>, <<"t","o","d","a","y">> })
       /\ \A i \in suggested, j \in tip : i < j

\* "BudgetDPR" asked without a key: both blocks follow the context
C19_Witness ==
  /\ Answered /\ aiResult.mode = "offline"
  /\ aiCall.question = Q_Budget \o Q_DPR
  /\ Positions(aiResult.answer, "Suggested checks:") # {}
  /\ Positions(aiResult.answer, "DPR format tip:") # {}

\* C20: the standalone health handler never raises; it returns statusCode 200
\* with status "ok" and database "connected" exactly when connecting, SELECT 1
\* and the commit all complete, and statusCode 500 with status "error" and the
\* text of the exception whenever one of them raises.
C20_HealthProbe ==
  resp.op = "handler" =>
    LET failAt == resp.payload[1].failAt
    IN /\ ~resp.payload[1].raised
       /\ resp.body # None
       /\ resp.status = 200 <=> failAt = "none"
       /\ failAt = "none" => resp.body[1] = [status |-> "ok", database |-> "connected"]
       /\ failAt # "none" =>
            /\ resp.status = 500
            /\ resp.body[1].status = "error"
            /\ resp.body[1].message = ExceptionText(failAt)

\* the commit of the probe's scope raised and the probe answered 500
C20_Witness ==
  /\ resp.op = "handler"
  /\ resp.payload[1].failAt = "commit"
  /\ resp.status = 500
  /\ resp.body[1].status = "error"

RECURSIVE DescendingFrom(_, _)
\* from position i on, each row is later than the next, or of the same date and higher id
DescendingFrom(rows, i) ==
  IF i >= Len(rows) THEN TRUE
  ELSE /\ \/ rows[i].entry_date > rows[i + 1].entry_date
          \/ rows[i].entry_date = rows[i + 1].entry_date /\ rows[i].id > rows[i + 1].id
       /\ DescendingFrom(rows, i + 1)

\* C21: date-range filtering.  A served GET /projects/{id}/costs returns the
\* cost entries of that project whose entry_date lies in the inclusive range
\* [from_date, to_date], an omitted bound being unbounded, each once, ordered by
\* entry_date descending and by id descending within a date.
C21_DateRangeFiltering ==
  (resp.op = "list_costs" /\ ~resp.dbErr) =>
    LET w == resp.payload[1]
        rows == resp.body[1]
    IN /\ resp.status = 200
       /\ { rows[i] : i \in 1..Len(rows) }
            = { c \in cost_entries :
                  /\ c.project_id = resp.arg
                  /\ (w.from # None => w.from[1] <= c.entry_date)
                  /\ (w.to # None => c.entry_date <= w.to[1]) }
       /\ \A i, j \in 1..Len(rows) : rows[i] = rows[j] => i = j
       /\ DescendingFrom(rows, 1)

\* a request with a to_date answered with an entry on the bound, two entries of one
\* date, an older entry of higher id behind them, and a later entry left out
C21_Witness ==
  /\ resp.op = "list_costs" /\ ~resp.dbErr
  /\ resp.payload[1].to # None
  /\ \E c \in cost_entries : c.project_id = resp.arg /\ c.entry_date > resp.payload[1].to[1]
  /\ LET rows == resp.body[1]
     IN /\ Len(rows) >= 3
        /\ rows[1].entry_date = resp.payload[1].to[1]
        /\ \E i \in 1..(Len(rows) - 1) : rows[i].entry_date = rows[i + 1].entry_date
        /\ \E i \in 1..(Len(rows) - 1) : rows[i].id < rows[i + 1].id

\* at most one labour_manpower row per (project_id, record_date)
LabourPairsUnique ==
  \A a, b \in kpi_rows :
    (/\ a.table = "labour_manpower" /\ b.table = "labour_manpower"
     /\ a.project_id = b.project_id /\ a.record_date = b.record_date) => a = b

\* a POST /labour-manpower for a pair that has a record ends as a 500 and changes no row
DuplicateLabourFails ==
  \A pid \in ProjectIds, payload \in LabourPayloads :
    (/\ HandlerStep("create_labour_manpower")
     /\ resp'.arg = pid /\ resp'.payload = Some(payload)
     /\ \E k \in kpi_rows : /\ k.table = "labour_manpower" /\ k.project_id = pid
                            /\ k.record_date = Some(payload.record_date))
    => /\ resp'.status = 500 /\ resp'.body = None
       /\ UNCHANGED <<tables, seq>>

\* C22: labour-manpower uniqueness.  There is never more than one labour_manpower
\* row per (project_id, record_date); a POST /labour-manpower for a pair that already
\* has a record fails with an error that reaches the caller (a 500), and the existing
\* record and every other row stay as they were.
C22_LabourUniqueness == [](LabourPairsUnique) /\ [][DuplicateLabourFails]_vars

\* a request for a seeded pair with another total_actual was refused with persistence
\* working, and the seeded record still holds its figure
C22_Witness ==
  /\ resp.op = "create_labour_manpower" /\ ~resp.dbErr /\ resp.status = 500
  /\ resp.arg \in ProjectIds
  /\ resp.prior # None /\ resp.prior[1] # {}
  /\ \A k \in resp.prior[1] : k \in kpi_rows /\ k.total_actual # Some(resp.payload[1].total_actual)

\* C23: the standalone health probe has no side effects beyond the read.  Whatever
\* the filesystem and the database hold before, a run of the probe leaves the
\* persisted state as it was: no directory created, no database file created, no
\* row written.
C23_HealthProbeNoSideEffects ==
  [][HandlerStep("handler") => UNCHANGED <<fs, db>>]_vars

\* the probe ran where the database directory was missing and answered 200 "ok,
\* connected": the directory and an empty database file are there afterwards
C23_Failure ==
  /\ resp.op = "handler" /\ resp.status = 200
  /\ resp.prior = Some([dir |-> FALSE, file |-> FALSE])
  /\ fs = FsFull
  /\ ~schema

\* the import-time block, and the startup event (run or not run by the mount)
ImportStep == phase = "boot" /\ phase' = "imported"
StartupStep == phase = "imported" /\ phase' = "serving"

\* C24: read-only deployment mode.  With the platform flag set, neither the
\* import-time initialization nor the startup event creates the schema, migrates or
\* seeds (the database file and its directory stay as they were), and the
\* availability flag keeps the value it had: true after import, the same after startup.
C24_ReadOnlyDeployment ==
  [][/\ (VERCEL /\ ImportStep) => (UNCHANGED <<db, fs, dbfile>> /\ DB_AVAILABLE' = TRUE)
     /\ (VERCEL /\ StartupStep) => UNCHANGED <<db, fs, dbfile, DB_AVAILABLE>>]_vars

\* with the flag set the process came up on a file whose projects table is empty:
\* nothing was seeded and the availability flag is true
C24_Witness ==
  /\ VERCEL /\ phase = "serving"
  /\ schema /\ projects = {} /\ seq["projects"] = 0
  /\ DB_AVAILABLE

\* a new process replaces the old one: its flag is a new variable, set at import
RestartStep == phase' = "boot"

\* C25: the availability flag changes value only in startup initialization (the
\* import-time block and the startup event: true after a run that succeeded, false
\* after a caught failure) or on a caught persistence failure in list-projects or
\* job-costing; every other step of the process, successful requests and the
\* failures of every other route included, leaves it as it was.
C25_FlagWrittenOnlyAtStartup ==
  [][/\ DB_AVAILABLE' # DB_AVAILABLE =>
          \/ ImportStep \/ StartupStep \/ RestartStep
          \/ (HandlerStep("list_projects") \/ HandlerStep("job_costing")) /\ resp'.dbErr
     /\ ((ImportStep \/ StartupStep) /\ ~VERCEL /\ DB_AVAILABLE') =>
          (schema' /\ projects' # {})
     /\ ((ImportStep \/ StartupStep) /\ ~VERCEL /\ ~schema') => ~DB_AVAILABLE']_vars

\* a process whose startup failed is serving with the flag false, and a route other
\* than the two has just failed on persistence: the flag is still false
C25_Witness ==
  /\ phase = "serving" /\ ~DB_AVAILABLE /\ ~resp.avail
  /\ resp.op \notin {"none", "list_projects", "job_costing"}
  /\ resp.dbErr /\ resp.status = 500

\* the columns _migrate_schema lists for table t
Listed(t) == { MigratedColumns(t)[i] : i \in 1..Len(MigratedColumns(t)) }

\* a run of init_db creates the tables that are not there, adds to each table that
\* is there exactly the listed columns it lacks, keeps every column, and keeps every
\* row with the values it had
MigrationAddsMissing ==
  \A t \in MigratedTables :
    /\ dbfile.columns[t] = {} => dbfile'.columns[t] = CreateColumns(t) \cup Listed(t)
    /\ dbfile.columns[t] # {} =>
      /\ dbfile'.columns[t] = dbfile.columns[t] \cup Listed(t)
      /\ Cardinality(dbfile'.rows[t]) = Cardinality(dbfile.rows[t])
      /\ { [c \in dbfile.columns[t] |-> r[c]] : r \in dbfile'.rows[t] } = dbfile.rows[t]

\* C27: migration idempotence.  On every older or current database file a run of
\* init_db adds exactly the missing ones among cost_entries.{quantity, uom, unit_rate}
\* and projects.{total_contract_value, profit_margin_target,
\* contract_completion_date, project_manager, site_engineer, status, updated_at},
\* drops or rewrites no existing column or row, and a second run changes nothing.
C27_MigrationIdempotent ==
  [][(phase = "migrate" /\ procs'.runs = procs.runs + 1) =>
       /\ MigrationAddsMissing
       /\ procs.runs >= 1 => dbfile' = dbfile]_vars

\* init_db ran twice on a file whose projects table lacked status and whose
\* cost_entries lacked uom, each with a row: the columns are there, the rows are kept
C27_Witness ==
  /\ phase = "migrate" /\ procs.runs = 2
  /\ \E r \in dbfile.rows["projects"] :
       r["status"] = Some("Planning") /\ r["name"] = Some("old") /\ r["updated_at"] = None
  /\ \E r \in dbfile.rows["cost_entries"] :
       r["uom"] = None /\ r["quantity"] = Some("old")

\* the API key is absent, empty or made of whitespace only
KeyMissing(key) == key = None \/ \A i \in 1..Len(key[1]) : key[1][i] \in {" ", "\n", "\t"}

\* the online attempt failed or came back empty
OnlineGaveNothing(online) ==
  online.kind # "ok" \/ \A i \in 1..Len(online.content) : online.content[i] \in {" ", "\n", "\t"}

\* C28: single online attempt.  A call of answer() makes at most one request to the
\* chat-completions endpoint, none when no API key is configured (absent, empty or
\* whitespace only), and after a failed or empty attempt it returns the offline
\* answer without asking again.
C28_SingleOnlineAttempt ==
  Answered =>
    /\ aiResult.posts <= 1
    /\ KeyMissing(aiCall.key) => aiResult.posts = 0
    /\ (~KeyMissing(aiCall.key) /\ OnlineGaveNothing(aiCall.online)) =>
         (aiResult.mode = "offline" /\ aiResult.posts = 1)

\* with a key configured the endpoint failed on the network: one request was made
\* and the offline answer came back
C28_Witness ==
  /\ Answered
  /\ ~KeyMissing(aiCall.key) /\ aiCall.online.kind = "network"
  /\ aiResult.mode = "offline" /\ aiResult.posts = 1

\* the body lists the rows of the projects table, each once, newest id first
LiveNewestFirst(body) ==
  /\ Len(body) = Cardinality(projects)
  /\ \A i \in 1..Len(body) :
       \E p \in projects : body[i].id = p.id /\ body[i].name = p.name
  /\ \A i \in 1..(Len(body) - 1) : body[i].id > body[i + 1].id

\* C29: the list-projects fallback is not sticky.  A persistence failure caught in
\* GET /projects leaves the availability flag (and the database) as it was; so with
\* the flag true every GET /projects whose query succeeds returns the live rows,
\* newest id first, whatever earlier requests met, and mock data is returned only to
\* a request whose own query failed or while a failed startup has left the flag false.
C29_FallbackNotSticky ==
  /\ [][HandlerStep("list_projects") => UNCHANGED <<DB_AVAILABLE, db>>]_vars
  /\ [](resp.op = "list_projects" =>
          /\ (resp.avail /\ ~resp.dbErr) => LiveNewestFirst(resp.body)
          /\ ~LiveNewestFirst(resp.body) => (resp.dbErr \/ ~resp.avail))

\* the query of a GET /projects failed while the flag was true and two projects
\* existed: the mock project was returned and the flag is still true
C29_Witness ==
  /\ resp.op = "list_projects" /\ resp.avail /\ resp.dbErr
  /\ DB_AVAILABLE /\ schema
  /\ Cardinality(projects) = 2
  /\ Len(resp.body) = 1

\* the sample projects in the file
SampleProjects == { r \in dbfile.rows["projects"] : r["name"] = Some(SampleName) }

\* no other process has begun its startup run
Alone(p) == \A q \in Procs \ {p} : procs[q].pc = "idle"

\* C26 (as the specification states it): scoped connection discipline.  Every
\* db_cursor scope has a connection of its own, closed when the scope ends whether
\* the body returned or raised, so no connection stays open outside a scope; the
\* transaction is committed exactly when the body returned: what a scope that
\* raised wrote is not in the file, what a scope that returned wrote is.
C26_ScopedConnectionDiscipline ==
  \A p \in Procs :
    /\ procs[p].pc \in OutsideScope => (~procs[p].conn /\ procs[p].pending = {})
    /\ (procs[p].pc = "failed" /\ Alone(p)) => dbfile = procs[p].atOpen
    /\ (procs[p].pc = "done" /\ Alone(p)) => Cardinality(SampleProjects) = 1

\* the scope of init_db raised in its migration, the connection is closed, and the
\* tables and a column the scope created are in the file all the same
C26_Failure ==
  /\ procs[1].pc = "failed" /\ ~procs[1].conn /\ Alone(1)
  /\ procs[1].atOpen = NoDbFile
  /\ dbfile.columns["cost_entries"] = CreateColumns("cost_entries")
  /\ "contract_completion_date" \in dbfile.columns["projects"]
  /\ "status" \notin dbfile.columns["projects"]

\* C30 (as the specification states it): seeding is at-most-once under
\* concurrency.  When two processes run startup initialization concurrently on the
\* same empty database file, each seed_if_empty reading the count and inserting in
\* its own connection, every interleaving in which both complete ends with exactly
\* one sample project in the projects table.
C30_SeedingAtMostOnce ==
  (\A p \in Procs : procs[p].pc = "done") => Cardinality(SampleProjects) = 1

\* both processes read a count of 0 before either inserted, both completed with the
\* flag true, and the table holds two sample projects
C30_Failure ==
  /\ \A p \in Procs : procs[p].pc = "done" /\ procs[p].count = 0 /\ procs[p].flag
  /\ Cardinality(SampleProjects) = 2
====
